---- MODULE Spec2Model ----
(***************************************************************************)
(* Model of the stained-glass pipeline orchestrator, the React hook        *)
(* useStainedGlass of src/src/hooks/useWorker.ts (lines 392-987), together *)
(* with the edge-detection worker it talks to.                             *)
(*                                                                         *)
(* One settings field stands for each dependency class of the hook: the    *)
(* hook treats all fields of a class through the same dependency lists,    *)
(* keys and refs.                                                          *)
(*   edgeSensitivity : preBlur, contrast, edgeMethod, edgeSensitivity      *)
(*   cellCount       : cellCount, pointDistribution, edgeInfluence,        *)
(*                     relaxationIterations                                *)
(*   frameStyle, frameWidth, frameCellSize : themselves                    *)
(*   frameHueShift   : frameColorPalette, frameHueShift, frameSaturation,  *)
(*                     frameBrightness                                     *)
(*   saturation      : colorMode, paletteSize, saturation, brightness,     *)
(*                     colorPalette                                        *)
(*   lineWidth       : lineWidth, lineColor                                *)
(*   lighting        : the lighting record                                 *)
(***************************************************************************)
EXTENDS Integers, Sequences, FiniteSets, TLC

\* ---------------------------------------------------------------- bounds
MaxChanges == 2     \* setSettings calls in one behaviour
MaxLoads == 2       \* loadImage calls in one behaviour
MaxRuns == 3        \* processImage invocations in one behaviour
MaxFailures == 1    \* exceptions thrown (decoder, worker or stage)

\* ------------------------------------------------------------- null value
Null == [null |-> TRUE]

\* ------------------------------------------------------ settings record
Fields ==
  {"edgeSensitivity", "cellCount", "frameStyle", "frameWidth", "frameCellSize",
   "frameHueShift", "saturation", "lineWidth", "lighting"}

DEFAULT_SETTINGS ==
  [edgeSensitivity |-> 50, cellCount |-> 500, frameStyle |-> "none",
   frameWidth |-> 5, frameCellSize |-> 30, frameHueShift |-> 0,
   saturation |-> 1, lineWidth |-> 2, lighting |-> "off"]

\* the other value each field takes in the model
AltValue ==
  [edgeSensitivity |-> 70, cellCount |-> 800, frameStyle |-> "segmented",
   frameWidth |-> 10, frameCellSize |-> 60, frameHueShift |-> 90,
   saturation |-> 2, lineWidth |-> 4, lighting |-> "on"]

Toggle(s, f) ==
  IF s[f] = DEFAULT_SETTINGS[f] THEN AltValue[f] ELSE DEFAULT_SETTINGS[f]

\* setSettings: merge a partial record (here: one field) into the state
Merge(s, f) == [s EXCEPT ![f] = Toggle(s, f)]

\* ------------------------------------------------------------ the stages
\* width = height of the decoded image of the k-th file
ImageDim(img) == 100 * img

\* `${edgeMethod}-${edgeSensitivity}-${preBlur}-${contrast}`
EdgeKey(s) == <<s.edgeSensitivity>>

\* the edge map: a function of the pixel buffer and the edge options
DetectEdges(img, s) == [img |-> img, edgeSensitivity |-> s.edgeSensitivity]

calculateFrameDepth(img, frameWidth) == (ImageDim(img) * frameWidth + 50) \div 100

InnerBounds(img, style, frameWidth) ==
  IF style = "none"
  THEN [left |-> 0, top |-> 0, right |-> ImageDim(img), bottom |-> ImageDim(img)]
  ELSE LET d == calculateFrameDepth(img, frameWidth)
       IN [left |-> d, top |-> d, right |-> ImageDim(img) - d,
           bottom |-> ImageDim(img) - d]

NoElements == [count |-> 0]

FrameElements(img, style, frameWidth, cellSize, colorOptions) ==
  IF style = "none"
  THEN NoElements
  ELSE [count |-> 4, img |-> img, depth |-> calculateFrameDepth(img, frameWidth),
        cellSize |-> cellSize, colors |-> colorOptions]

generateFrame(img, style, frameWidth, cellSize, colorOptions) ==
  [elements |-> FrameElements(img, style, frameWidth, cellSize, colorOptions),
   innerBounds |-> InnerBounds(img, style, frameWidth)]

\* seed points + relaxation + Voronoi; the seeds are random, so every
\* generation is a new value (gen = the run that generated it)
generateVoronoi(img, bounds, cellCount, edges, gen) ==
  [img |-> img, bounds |-> bounds, cellCount |-> cellCount, edges |-> edges,
   gen |-> gen]

\* sampleColors over the pixel buffer + the map to ColoredCell
ColorCells(img, cells, colorSettings) ==
  [img |-> img, cells |-> cells, color |-> colorSettings]

generateSVG(coloredCells, lineSettings, img, frameElements, lighting) ==
  [cells |-> coloredCells, line |-> lineSettings, img |-> img,
   frame |-> frameElements, lighting |-> lighting]


\* -------------------------------------------------------------- the state
VARIABLES
  settings,               \* useState settings (l.403)
  svgString,              \* useState svgString (l.410): Null or a document
  processingState,        \* useState processingState (l.412)
  loadedImageRef,         \* l.423: 0 = null, k = the image of the k-th file
  edgesRef,               \* l.424: Null or an edge map
  lastEdgeSettingsRef,    \* l.425: <<>> = '' or an edge key
  debounceTimerRef,       \* l.426: Null or the timer set last
  coloredCellsRef,        \* l.428
  voronoiCellsRef,        \* l.430
  frameElementsRef,       \* l.432
  lineSettingsRef,        \* l.434
  lightingSettingsRef,    \* l.436
  colorSettingsRef,       \* l.469
  frameCellSizeRef,       \* l.477
  frameColorSettingsRef,  \* l.479
  prevFrameSettingsRef,   \* l.736
  prevColorSettingsRef,   \* l.803
  timers,                 \* the setTimeout callbacks that are pending
  runs,                   \* the processImage invocations in flight
  loads,                  \* the loadImage invocations in flight
  workerQueue,            \* detectEdges requests posted to the worker
  nChanges, nLoads, nRuns, nFailures,   \* counters that bound a behaviour
  lastPublisher,          \* history: the run whose setSvgString came last
  needRun,                \* history: a processImage dependency changed on a
                          \* loaded image and no debounced run started since
  changedWhileLoading,    \* history: setSettings was called during a load or
                          \* before the first document was shown
  lastFailed,             \* history: the processImage run that failed last
  lastWriter              \* history: the function that called setSvgString last

refs ==
  <<loadedImageRef, edgesRef, lastEdgeSettingsRef, debounceTimerRef,
    coloredCellsRef, voronoiCellsRef, frameElementsRef, lineSettingsRef,
    lightingSettingsRef, colorSettingsRef, frameCellSizeRef,
    frameColorSettingsRef, prevFrameSettingsRef, prevColorSettingsRef>>

caches ==
  <<edgesRef, lastEdgeSettingsRef, coloredCellsRef, voronoiCellsRef,
    frameElementsRef>>

syncRefs ==
  <<lineSettingsRef, lightingSettingsRef, colorSettingsRef, frameCellSizeRef,
    frameColorSettingsRef>>

counters == <<nChanges, nLoads, nRuns, nFailures>>

history == <<lastPublisher, needRun, changedWhileLoading, lastFailed, lastWriter>>

vars ==
  <<settings, svgString, processingState, refs, timers, runs, loads,
    workerQueue, counters, history>>

\* The library functions are modelled each as a call in progress: its
\* arguments, its local variables and its position.
VARIABLES
  seed,                   \* a call of a seed strategy (voronoi/generator.ts l.101-268)
  voronoiResult,          \* the result of generateVoronoi (l.21-58) or Null
  svgDoc,                 \* the last call of generateSVG (svg/generator.ts l.59-135)
  sampled                 \* the last call of sampleColors (color-palettes.ts l.623-649)

libVars == <<seed, voronoiResult, svgDoc, sampled>>

\* The hook useSettingsHistory (hooks/useSettingsHistory.ts)
VARIABLES
  settingsHistory,        \* useState history (l.37)
  historyIndex,           \* useState historyIndex (l.38), counted from 0
  historyTimer,           \* debounceTimerRef (l.41): is a timer pending?
  pendingSettingsRef,     \* l.43: Null or the settings pushed last
  undone,                 \* history: undo moved the index and nothing was
                          \* committed or redone since
  truncated               \* history: the entries the last commit dropped
                          \* after the current index

historyVars ==
  <<settingsHistory, historyIndex, historyTimer, pendingSettingsRef, undone,
    truncated>>

\* The hook useImageWorker (hooks/useWorker.ts l.21-116) and its worker
VARIABLES
  workerRef,              \* l.22: Null or the worker
  effectRan,              \* has the effect of l.25-59 run?
  pendingRef,             \* l.23: the ids of the pending-request map
  toWorker,               \* the requests posted to the worker, not yet handled
  fromWorker,             \* the responses posted by the worker, not yet delivered
  issued,                 \* history: the ids detectEdges was called with
  settlements             \* history: for each id, how its promise was settled,
                          \* in order

workerVars ==
  <<workerRef, effectRan, pendingRef, toWorker, fromWorker, issued, settlements>>

\* The stages called on their own
VARIABLES
  stageEntry,             \* the last entry into a stage: the settings value it
                          \* was given and what the stage computed from it
  cannyCall,              \* a call of hysteresisThreshold (workers/image.worker.ts)
  relaxCall,              \* a call of relaxPoints (voronoi/generator.ts l.64-93)
  frameCall               \* the last call of generateFrame (unnamed/part_012)

stageVars == <<stageEntry, cannyCall, relaxCall, frameCall>>

newVars == <<historyVars, workerVars, stageVars>>

pureVars == <<libVars, newVars>>

Idle == [pc |-> "idle"]

NoError == "null"

Init ==
  /\ settings = DEFAULT_SETTINGS
  /\ svgString = Null
  /\ processingState = [isLoading |-> FALSE, isProcessing |-> FALSE, error |-> NoError]
  /\ loadedImageRef = 0
  /\ edgesRef = Null
  /\ lastEdgeSettingsRef = <<>>
  /\ debounceTimerRef = Null
  /\ coloredCellsRef = Null
  /\ voronoiCellsRef = Null
  /\ frameElementsRef = NoElements
  /\ lineSettingsRef = DEFAULT_SETTINGS.lineWidth
  /\ lightingSettingsRef = DEFAULT_SETTINGS.lighting
  /\ colorSettingsRef = DEFAULT_SETTINGS.saturation
  /\ frameCellSizeRef = DEFAULT_SETTINGS.frameCellSize
  /\ frameColorSettingsRef = DEFAULT_SETTINGS.frameHueShift
  /\ prevFrameSettingsRef = <<>>
  /\ prevColorSettingsRef = <<>>
  /\ timers = {}
  /\ runs = {}
  /\ loads = {}
  /\ workerQueue = <<>>
  /\ nChanges = 0 /\ nLoads = 0 /\ nRuns = 0 /\ nFailures = 0
  /\ lastPublisher = 0
  /\ needRun = FALSE
  /\ changedWhileLoading = FALSE
  /\ lastFailed = 0
  /\ lastWriter = "none"
  /\ seed = Idle
  /\ voronoiResult = Null
  /\ svgDoc = Null
  /\ sampled = Null
  /\ settingsHistory = <<[settings |-> 0]>>
  /\ historyIndex = 0
  /\ historyTimer = FALSE
  /\ pendingSettingsRef = Null
  /\ undone = FALSE
  /\ truncated = 0
  /\ workerRef = Null
  /\ effectRan = FALSE
  /\ pendingRef = {}
  /\ toWorker = <<>>
  /\ fromWorker = <<>>
  /\ issued = {}
  /\ settlements = [id \in {} |-> <<>>]
  /\ stageEntry = Null
  /\ cannyCall = Null
  /\ relaxCall = Null
  /\ frameCall = Null

\* ------------------------------------------- dependency lists and keys
\* mutants of the dependency list: an SVG-only, a color-only or a frame-only
\* field is listed among processImage's dependencies
ProcessImageDepsWithLine(s) ==
  <<s.cellCount, s.edgeSensitivity, s.frameStyle, s.frameWidth, s.lineWidth,
    s.lighting>>

ProcessImageDepsWithColor(s) ==
  <<s.cellCount, s.edgeSensitivity, s.frameStyle, s.frameWidth, s.saturation>>

ProcessImageDepsWithFrameCell(s) ==
  <<s.cellCount, s.edgeSensitivity, s.frameStyle, s.frameWidth, s.frameCellSize>>

\* processImage's useCallback dependency list
ProcessImageDeps(s) ==
  <<s.cellCount, s.edgeSensitivity, s.frameStyle, s.frameWidth>>

\* regenerateFrame's useCallback dependency list
RegenerateFrameDeps(s) ==
  <<s.frameStyle, s.frameWidth, s.frameCellSize, s.frameHueShift>>

\* dependency list of the frame-only effect
FrameEffectDeps(s) ==
  <<s.frameCellSize, s.frameHueShift, RegenerateFrameDeps(s), s.frameStyle>>

\* resampleColors' dependency list, and with it the color-only effect's
ResampleColorsDeps(s) == <<s.saturation>>

\* regenerateSVG's dependency list
RegenerateSVGDeps(s) == <<s.lineWidth, s.lighting>>

FrameKey(s) == <<s.frameCellSize, s.frameHueShift, s.frameStyle>>

ColorKey(s) == <<s.saturation>>

\* what a callback created in a render sees of that render's settings:
\* the values its useCallback dependency list names
\* mutant: cellCount is read from a stale render
StaleProcessImageClosure(s) ==
  [edgeSensitivity |-> s.edgeSensitivity, cellCount |-> DEFAULT_SETTINGS.cellCount,
   frameStyle |-> s.frameStyle, frameWidth |-> s.frameWidth]

ProcessImageClosure(s) ==
  [edgeSensitivity |-> s.edgeSensitivity, cellCount |-> s.cellCount,
   frameStyle |-> s.frameStyle, frameWidth |-> s.frameWidth]

RegenerateFrameClosure(s) ==
  [frameStyle |-> s.frameStyle, frameWidth |-> s.frameWidth,
   frameCellSize |-> s.frameCellSize, frameHueShift |-> s.frameHueShift]

ResampleColorsClosure(s) == [saturation |-> s.saturation]

Closure(kind, s) ==
  CASE kind = "processImage" -> ProcessImageClosure(s)
    [] kind = "regenerateFrame" -> RegenerateFrameClosure(s)
    [] kind = "resampleColors" -> ResampleColorsClosure(s)

\* clearTimeout(debounceTimerRef.current)
ClearTimeout(ts, ref) == ts \ {ref}

\* setTimeout(callback, ms): the pending callback and what it closes over
Timer(kind, s, cause) ==
  [kind |-> kind, closure |-> Closure(kind, s), cause |-> cause]

\* --------------------------------------------- a render and its effects
\* The commit of a render whose settings changed from old to new: first the
\* cleanups of the effects whose dependencies changed, then those effects
\* in the order the hook declares them.
Commit(old, new, cause) ==
  LET c7 == FrameEffectDeps(old) # FrameEffectDeps(new)
      c8 == ResampleColorsDeps(old) # ResampleColorsDeps(new)
      c9 == ProcessImageDeps(old) # ProcessImageDeps(new)
      c10 == RegenerateSVGDeps(old) # RegenerateSVGDeps(new)
      \* cleanups (l.753, l.820, l.862)
      t0 == IF c7 \/ c8 \/ c9 THEN ClearTimeout(timers, debounceTimerRef) ELSE timers
      \* frame-only effect (l.739)
      go7 == /\ c7
             /\ coloredCellsRef # Null
             /\ new.frameStyle # "none"
             /\ FrameKey(new) # prevFrameSettingsRef
      tm7 == Timer("regenerateFrame", new, cause)
      t7 == IF go7 THEN ClearTimeout(t0, debounceTimerRef) \cup {tm7} ELSE t0
      r7 == IF go7 THEN tm7 ELSE debounceTimerRef
      \* color-only effect (l.806)
      go8 == /\ c8
             /\ voronoiCellsRef # Null
             /\ ColorKey(new) # prevColorSettingsRef
      tm8 == Timer("resampleColors", new, cause)
      t8 == IF go8 THEN ClearTimeout(t7, r7) \cup {tm8} ELSE t7
      r8 == IF go8 THEN tm8 ELSE r7
      \* debouncedProcess effect (l.858)
      go9 == c9 /\ loadedImageRef # 0
      tm9 == Timer("processImage", new, cause)
      t9 == IF go9 THEN ClearTimeout(t8, r8) \cup {tm9} ELSE t8
      r9 == IF go9 THEN tm9 ELSE r8
      \* regenerateSVG effect (l.870)
      go10 == c10 /\ coloredCellsRef # Null /\ loadedImageRef # 0
  IN /\ settings' = new
     /\ lineSettingsRef' = new.lineWidth
     /\ lightingSettingsRef' = new.lighting
     /\ colorSettingsRef' = new.saturation
     /\ frameCellSizeRef' = new.frameCellSize
     /\ frameColorSettingsRef' = new.frameHueShift
     /\ prevFrameSettingsRef' = IF go7 THEN FrameKey(new) ELSE prevFrameSettingsRef
     /\ prevColorSettingsRef' = IF go8 THEN ColorKey(new) ELSE prevColorSettingsRef
     /\ timers' = t9
     /\ debounceTimerRef' = r9
     /\ svgString' = IF go10
                     THEN generateSVG(coloredCellsRef, new.lineWidth, loadedImageRef,
                                      frameElementsRef, new.lighting)
                     ELSE svgString
     /\ needRun' = IF go9 THEN TRUE ELSE needRun
     /\ lastWriter' = IF go10 THEN "regenerateSVG" ELSE lastWriter

LoadInProgress == loads # {} \/ \E r \in runs : r.cause = "load"

\* setSettings(partial) (l.928) and the render it causes
SetSettings(f) ==
  /\ nChanges < MaxChanges
  /\ nChanges' = nChanges + 1
  /\ Commit(settings, Merge(settings, f), f)
  /\ changedWhileLoading' = (changedWhileLoading \/ LoadInProgress \/ svgString = Null)
  /\ UNCHANGED <<processingState, loadedImageRef, caches, runs, loads, workerQueue,
                 nLoads, nRuns, nFailures, lastPublisher, lastFailed>>
  /\ UNCHANGED pureVars


\* ----------------------------------------------------------- processImage
\* processImage up to its first await (l.487-496), called with the closure
\* of the render that created the callback (cause and snapshot are history:
\* what scheduled the run, and the settings at the moment it starts)
StartProcessImage(closure, cause, state) ==
  IF loadedImageRef = 0
  THEN /\ processingState' = state
       /\ UNCHANGED <<runs, nRuns>>
  ELSE /\ processingState' = [state EXCEPT !.isProcessing = TRUE]
       /\ runs' = runs \cup {[id |-> nRuns + 1, pc |-> "raf", img |-> loadedImageRef,
                              closure |-> closure, cause |-> cause,
                              snapshot |-> settings]}
       /\ nRuns' = nRuns + 1

\* the stages of a run after the edge map is there, in the order they run
Stages == <<"generateFrame", "generateVoronoi", "sampleColors", "generateSVG">>

\* the catch and finally blocks (l.633-641), batched into one state update
\* mutant: the finally block is missing
RunFailedNoFinally(state, message) == [state EXCEPT !.error = message]

RunFailed(state, message) ==
  [state EXCEPT !.error = message, !.isProcessing = FALSE]

RunSucceeded(state) == [state EXCEPT !.isProcessing = FALSE]

\* l.519-641: run r goes on with the edge map edges, recorded under key last;
\* the stage Stages[failAt] throws (failAt = 5: none does)
Pipeline(r, edges, last, failAt) ==
  LET frameResult == generateFrame(r.img, r.closure.frameStyle, r.closure.frameWidth,
                                   frameCellSizeRef, frameColorSettingsRef)
      cells == generateVoronoi(r.img, frameResult.innerBounds, r.closure.cellCount,
                               edges, r.id)
      coloredCells == ColorCells(r.img, cells, colorSettingsRef)
      svg == generateSVG(coloredCells, lineSettingsRef, r.img, frameResult.elements,
                         lightingSettingsRef)
  IN /\ edgesRef' = edges
     /\ lastEdgeSettingsRef' = last
     /\ frameElementsRef' = IF failAt > 1 THEN frameResult.elements ELSE frameElementsRef
     /\ voronoiCellsRef' = IF failAt > 2 THEN cells ELSE voronoiCellsRef
     /\ coloredCellsRef' = IF failAt > 3 THEN coloredCells ELSE coloredCellsRef
     /\ svgString' = IF failAt > 4 THEN svg ELSE svgString
     /\ lastPublisher' = IF failAt > 4 THEN r.id ELSE lastPublisher
     /\ lastFailed' = IF failAt > 4 THEN lastFailed ELSE r.id
     /\ lastWriter' = IF failAt > 4 THEN "processImage" ELSE lastWriter
     /\ processingState' = IF failAt > 4 THEN RunSucceeded(processingState)
                           ELSE RunFailed(processingState, Stages[failAt])
     /\ nFailures' = IF failAt > 4 THEN nFailures ELSE nFailures + 1
     /\ runs' = runs \ {r}

FailPoints == IF nFailures < MaxFailures THEN 1..5 ELSE {5}

\* mutant: the edge settings key is not compared
NeedsEdgesNoKey(r) == edgesRef = Null

\* l.502: does the run have to compute the edge map?
NeedsEdges(r) ==
  EdgeKey(r.closure) # lastEdgeSettingsRef \/ edgesRef = Null

Request(kind, id, img, closure) ==
  [kind |-> kind, id |-> id, img |-> img, closure |-> closure]

\* requestAnimationFrame callbacks run in the order they were registered
FirstFrameCallback(r) == \A q \in runs : q.pc = "raf" => q.id >= r.id

\* the animation frame a run waits for arrives (l.496); the run goes on to
\* the worker request (l.512) or, with the edge map cached, to its end
RafResumeDetect(r) ==
  /\ r \in runs /\ r.pc = "raf"
  /\ FirstFrameCallback(r)
  /\ NeedsEdges(r)
  /\ workerQueue' = Append(workerQueue, Request("run", r.id, r.img, r.closure))
  /\ runs' = (runs \ {r}) \cup {[r EXCEPT !.pc = "worker"]}
  /\ UNCHANGED <<settings, svgString, processingState, refs, timers, loads,
                 counters, history>>
  /\ UNCHANGED pureVars

RafResumeCached(r) ==
  /\ r \in runs /\ r.pc = "raf"
  /\ FirstFrameCallback(r)
  /\ ~NeedsEdges(r)
  /\ \E failAt \in FailPoints : Pipeline(r, edgesRef, lastEdgeSettingsRef, failAt)
  /\ UNCHANGED <<settings, loadedImageRef, debounceTimerRef, syncRefs,
                 prevFrameSettingsRef, prevColorSettingsRef, timers, loads,
                 workerQueue, nChanges, nLoads, nRuns, needRun, changedWhileLoading>>
  /\ UNCHANGED pureVars

\* ---------------------------------------------------------------- timers
\* the debounced processImage() of l.852-854
FireProcessImage(t) ==
  /\ t \in timers /\ t.kind = "processImage"
  /\ nRuns < MaxRuns
  /\ timers' = timers \ {t}
  /\ StartProcessImage(t.closure, t.cause, processingState)
  /\ needRun' = FALSE
  /\ UNCHANGED <<settings, svgString, refs, loads, workerQueue, nChanges, nLoads,
                 nFailures, lastPublisher, changedWhileLoading, lastFailed,
                 lastWriter>>
  /\ UNCHANGED pureVars

\* regenerateFrame (l.691-733), called by the timer of l.749
FireRegenerateFrame(t) ==
  /\ t \in timers /\ t.kind = "regenerateFrame"
  /\ timers' = timers \ {t}
  /\ IF loadedImageRef = 0 \/ coloredCellsRef = Null
     THEN UNCHANGED <<frameElementsRef, svgString, lastWriter>>
     ELSE LET frameResult == generateFrame(loadedImageRef, t.closure.frameStyle,
                                           t.closure.frameWidth, t.closure.frameCellSize,
                                           t.closure.frameHueShift)
          IN /\ frameElementsRef' = frameResult.elements
             /\ svgString' = generateSVG(coloredCellsRef, lineSettingsRef, loadedImageRef,
                                         frameResult.elements, lightingSettingsRef)
             /\ lastWriter' = "regenerateFrame"
  /\ UNCHANGED <<settings, processingState, loadedImageRef, edgesRef,
                 lastEdgeSettingsRef, debounceTimerRef, coloredCellsRef,
                 voronoiCellsRef, syncRefs, prevFrameSettingsRef,
                 prevColorSettingsRef, runs, loads, workerQueue, counters,
                 lastPublisher, needRun, changedWhileLoading, lastFailed>>
  /\ UNCHANGED pureVars

\* resampleColors (l.761-800), called by the timer of l.816
FireResampleColors(t) ==
  /\ t \in timers /\ t.kind = "resampleColors"
  /\ timers' = timers \ {t}
  /\ IF loadedImageRef = 0 \/ voronoiCellsRef = Null
     THEN UNCHANGED <<coloredCellsRef, svgString, lastWriter>>
     ELSE LET coloredCells == ColorCells(loadedImageRef, voronoiCellsRef,
                                          t.closure.saturation)
          IN /\ coloredCellsRef' = coloredCells
             /\ svgString' = generateSVG(coloredCells, lineSettingsRef, loadedImageRef,
                                         frameElementsRef, lightingSettingsRef)
             /\ lastWriter' = "resampleColors"
  /\ UNCHANGED <<settings, processingState, loadedImageRef, edgesRef,
                 lastEdgeSettingsRef, debounceTimerRef, voronoiCellsRef,
                 frameElementsRef, syncRefs, prevFrameSettingsRef,
                 prevColorSettingsRef, runs, loads, workerQueue, counters,
                 lastPublisher, needRun, changedWhileLoading, lastFailed>>
  /\ UNCHANGED pureVars


\* ------------------------------------------------------------ the worker
\* The worker answers the requests in the order they were posted
\* (image.worker.ts l.349-379); onmessage of the hook (l.32-44) settles the
\* promise of the request, and the awaiting function goes on.

\* a result for a run waiting at l.512
WorkerResultRun ==
  /\ workerQueue # <<>>
  /\ LET m == Head(workerQueue)
     IN /\ m.kind = "run"
        /\ \E r \in runs :
             /\ r.id = m.id /\ r.pc = "worker"
             /\ \E failAt \in FailPoints :
                  Pipeline(r, DetectEdges(m.img, m.closure), EdgeKey(m.closure), failAt)
  /\ workerQueue' = Tail(workerQueue)
  /\ UNCHANGED <<settings, loadedImageRef, debounceTimerRef, syncRefs,
                 prevFrameSettingsRef, prevColorSettingsRef, timers, loads,
                 nChanges, nLoads, nRuns, needRun, changedWhileLoading>>
  /\ UNCHANGED pureVars

\* an error for a run waiting at l.512: the catch block of processImage
WorkerErrorRun ==
  /\ workerQueue # <<>>
  /\ nFailures < MaxFailures
  /\ LET m == Head(workerQueue)
     IN /\ m.kind = "run"
        /\ \E r \in runs :
             /\ r.id = m.id /\ r.pc = "worker"
             /\ runs' = runs \ {r}
             /\ lastFailed' = r.id
  /\ processingState' = RunFailed(processingState, "Unknown error")
  /\ nFailures' = nFailures + 1
  /\ workerQueue' = Tail(workerQueue)
  /\ UNCHANGED <<settings, svgString, refs, timers, loads, nChanges, nLoads, nRuns,
                 lastPublisher, needRun, changedWhileLoading, lastWriter>>
  /\ UNCHANGED pureVars

\* ---------------------------------------------------------------- loadImage
\* the files loadImage may be given: a decodable image of positive area,
\* a file the browser cannot decode, a file of intrinsic width or height 0
Files == {"image", "undecodable", "zeroArea"}

\* loadImage up to the await of the decoder (l.877-888)
LoadImage ==
  /\ nLoads < MaxLoads
  /\ nLoads' = nLoads + 1
  /\ processingState' = [isLoading |-> TRUE, isProcessing |-> FALSE, error |-> NoError]
  /\ \E file \in Files :
       loads' = loads \cup {[id |-> nLoads + 1, pc |-> "decode", file |-> file,
                             closure |-> ProcessImageClosure(settings)]}
  /\ UNCHANGED <<settings, svgString, refs, timers, runs, workerQueue, nChanges,
                 nRuns, nFailures, history>>
  /\ UNCHANGED pureVars

\* the decoder resolves: l.889-905
DecodeOk(l) ==
  /\ l \in loads /\ l.pc = "decode" /\ l.file = "image"
  /\ loadedImageRef' = l.id
  /\ workerQueue' = Append(workerQueue, Request("load", l.id, l.id, l.closure))
  /\ loads' = (loads \ {l}) \cup {[l EXCEPT !.pc = "edges"]}
  /\ UNCHANGED <<settings, svgString, processingState, caches, debounceTimerRef,
                 syncRefs, prevFrameSettingsRef, prevColorSettingsRef, timers, runs,
                 counters, history>>
  /\ UNCHANGED pureVars

LoadFailed(message) ==
  [isLoading |-> FALSE, isProcessing |-> FALSE, error |-> message]

\* the decoder rejects (img.onerror, loader.ts l.47-50; a browser may
\* refuse a file of zero area as well): the catch block of loadImage
\* (l.915-922)
DecodeError(l) ==
  /\ l \in loads /\ l.pc = "decode" /\ l.file \in {"undecodable", "zeroArea"}
  /\ nFailures < MaxFailures
  /\ nFailures' = nFailures + 1
  /\ processingState' = LoadFailed("Failed to load image")
  /\ loads' = loads \ {l}
  /\ UNCHANGED <<settings, svgString, refs, timers, runs, workerQueue, nChanges,
                 nLoads, nRuns, history>>
  /\ UNCHANGED pureVars

\* img.onload fires for an image of width or height 0 (loader.ts l.19-45):
\* getImageData(0, 0, 0, 0) throws inside the event handler, outside the
\* promise's executor, so the promise awaited at l.888 is never settled and
\* loadImage never resumes
DecodeZeroArea(l) ==
  /\ l \in loads /\ l.pc = "decode" /\ l.file = "zeroArea"
  /\ loads' = (loads \ {l}) \cup {[l EXCEPT !.pc = "hung"]}
  /\ UNCHANGED <<settings, svgString, processingState, refs, timers, runs,
                 workerQueue, counters, history>>
  /\ UNCHANGED pureVars

\* a result for a loadImage waiting at l.905: l.905-914
WorkerResultLoad ==
  /\ workerQueue # <<>>
  /\ nRuns < MaxRuns
  /\ LET m == Head(workerQueue)
     IN /\ m.kind = "load"
        /\ \E l \in loads :
             /\ l.id = m.id /\ l.pc = "edges"
             /\ loads' = loads \ {l}
             /\ edgesRef' = DetectEdges(m.img, m.closure)
             /\ lastEdgeSettingsRef' = EdgeKey(m.closure)
             /\ StartProcessImage(l.closure, "load",
                  [isLoading |-> FALSE, isProcessing |-> TRUE, error |-> NoError])
  /\ workerQueue' = Tail(workerQueue)
  /\ UNCHANGED <<settings, svgString, loadedImageRef, debounceTimerRef,
                 coloredCellsRef, voronoiCellsRef, frameElementsRef, syncRefs,
                 prevFrameSettingsRef, prevColorSettingsRef, timers, nChanges,
                 nLoads, nFailures, history>>
  /\ UNCHANGED pureVars

\* an error for a loadImage waiting at l.905: the catch block of loadImage
WorkerErrorLoad ==
  /\ workerQueue # <<>>
  /\ nFailures < MaxFailures
  /\ LET m == Head(workerQueue)
     IN /\ m.kind = "load"
        /\ \E l \in loads :
             /\ l.id = m.id /\ l.pc = "edges"
             /\ loads' = loads \ {l}
  /\ nFailures' = nFailures + 1
  /\ processingState' = LoadFailed("Unknown error")
  /\ workerQueue' = Tail(workerQueue)
  /\ UNCHANGED <<settings, svgString, refs, timers, runs, nChanges, nLoads, nRuns,
                 history>>
  /\ UNCHANGED pureVars

\* ------------------------------------------------------ the specification
Next ==
  \/ \E f \in Fields : SetSettings(f)
  \/ LoadImage
  \/ \E l \in loads : DecodeOk(l)
  \/ \E l \in loads : DecodeError(l)
  \/ \E l \in loads : DecodeZeroArea(l)
  \/ WorkerResultLoad
  \/ WorkerErrorLoad
  \/ \E t \in timers : FireProcessImage(t)
  \/ \E t \in timers : FireRegenerateFrame(t)
  \/ \E t \in timers : FireResampleColors(t)
  \/ \E r \in runs : RafResumeDetect(r)
  \/ \E r \in runs : RafResumeCached(r)
  \/ WorkerResultRun
  \/ WorkerErrorRun

Spec == Init /\ [][Next]_vars


\* ------------------------------------------------------------- the claims
\* The settings changes of the behaviour so far were all made to a loaded
\* image: none arrived before the first document was shown, or while a
\* loadImage call or the run it starts was in flight.
ChangesOnLoadedImage == ~changedWhileLoading

\* C1 (as claimed): once every overlapping run has finished without an
\* exception, the document that processImage published last is the one of
\* the run that started last; a superseded run never replaces it.
C1_LastStartedRunIsVisible ==
  (ChangesOnLoadedImage /\ runs = {} /\ nRuns > 0 /\ nFailures = 0)
    => lastPublisher = nRuns

\* C2 (as claimed): starting a run cancels the older run in flight, so at
\* most one processImage run is live at any moment.
C2_AtMostOneRunLive ==
  ChangesOnLoadedImage => Cardinality(runs) <= 1


\* run r publishes its document in this step
Publishes(r) == r \in runs /\ lastPublisher # r.id /\ lastPublisher' = r.id

\* doc is the document of image img under the settings s
DocReflects(doc, s, img) ==
  /\ doc.img = img
  /\ doc.line = s.lineWidth
  /\ doc.lighting = s.lighting
  /\ doc.frame = FrameElements(img, s.frameStyle, s.frameWidth, s.frameCellSize,
                               s.frameHueShift)
  /\ doc.cells.img = img
  /\ doc.cells.color = s.saturation
  /\ doc.cells.cells.img = img
  /\ doc.cells.cells.cellCount = s.cellCount
  /\ doc.cells.cells.bounds = InnerBounds(img, s.frameStyle, s.frameWidth)
  /\ doc.cells.cells.edges = DetectEdges(img, s)

Quiescent == timers = {} /\ runs = {} /\ loads = {} /\ workerQueue = <<>>

\* C4 (as claimed): once no change arrives any more and every timer and run
\* has finished (without an exception), the visible document reflects the
\* latest value of every setting.
C4_QuiescentDocumentIsCurrent ==
  (/\ Quiescent
   /\ ChangesOnLoadedImage
   /\ svgString # Null
   /\ processingState.error = NoError)
    => DocReflects(svgString, settings, loadedImageRef)

\* C9 (as claimed): a burst of changes that needs a full run gets exactly
\* one, after the last change of the burst and with the latest settings: as
\* long as the run has not started, its timer is pending.
C9_BurstGetsItsRun ==
  (ChangesOnLoadedImage /\ needRun)
    => \E t \in timers :
         t.kind = "processImage" /\ t.closure = ProcessImageClosure(settings)


\* a timer of the given kind fires in this step
Fires(kind) ==
  settings' = settings /\ \E t \in timers : t.kind = kind /\ t \notin timers'

\* the timer of the given kind, set for the settings s, is pending in ts
Scheduled(kind, s, ts) == \E f \in Fields : Timer(kind, s, f) \in ts

\* C5: a change to line width, line color or lighting starts and schedules
\* nothing and leaves the edge map, the Voronoi cells, the colored cells and
\* the frame elements as they are; with colored cells cached, the document
\* is generated anew from them and the cached frame elements.
C5_LineAndLightingRegenerateSvgOnly ==
  [][(settings'.lineWidth # settings.lineWidth \/ settings'.lighting # settings.lighting)
       => /\ timers' = timers
          /\ runs' = runs
          /\ workerQueue' = workerQueue
          /\ UNCHANGED <<edgesRef, voronoiCellsRef, coloredCellsRef, frameElementsRef>>
          /\ svgString' = IF coloredCellsRef # Null
                          THEN generateSVG(coloredCellsRef, settings'.lineWidth,
                                           loadedImageRef, frameElementsRef,
                                           settings'.lighting)
                          ELSE svgString]_vars

\* C5 witness: regenerateSVG wrote the visible document for a changed line width
C5_Witness ==
  /\ lastWriter = "regenerateSVG"
  /\ svgString.line = AltValue.lineWidth
  /\ coloredCellsRef # Null

\* C6: a change to a color setting starts no run and posts no edge request;
\* with Voronoi cells cached it schedules resampleColors, which colors the
\* cached cells with the new setting and emits the document; the cached
\* cells and the edge map stay as they are.
C6_ColorChangeResamplesCachedCells ==
  [][/\ (settings'.saturation # settings.saturation)
          => /\ runs' = runs
             /\ workerQueue' = workerQueue
             /\ UNCHANGED <<edgesRef, voronoiCellsRef>>
             /\ \A t \in timers' : t.kind = "resampleColors"
             /\ voronoiCellsRef # Null => Scheduled("resampleColors", settings', timers')
     /\ Fires("resampleColors")
          => /\ runs' = runs
             /\ workerQueue' = workerQueue
             /\ UNCHANGED <<edgesRef, voronoiCellsRef, frameElementsRef>>
             /\ voronoiCellsRef # Null =>
                  /\ coloredCellsRef' =
                       ColorCells(loadedImageRef, voronoiCellsRef, settings.saturation)
                  /\ svgString' = generateSVG(coloredCellsRef', settings.lineWidth,
                                              loadedImageRef, frameElementsRef,
                                              settings.lighting)]_vars

\* C6 witness: resampleColors wrote the visible document for a changed saturation
C6_Witness ==
  /\ lastWriter = "resampleColors"
  /\ svgString.cells.color = AltValue.saturation
  /\ svgString.cells.cells = voronoiCellsRef

FrameClass == {"frameStyle", "frameWidth", "frameCellSize", "frameHueShift"}

\* C7 (as claimed): a run scheduled by a change to a frame setting of a
\* loaded image does not generate the Voronoi cells anew.
C7_FrameChangeKeepsCells ==
  [][\A r \in runs :
       (ChangesOnLoadedImage /\ r.cause \in FrameClass /\ voronoiCellsRef # Null
          /\ voronoiCellsRef' # voronoiCellsRef)
         => voronoiCellsRef'.gen # r.id]_vars

\* C7 (amended): a change to frame cell size or a frame color setting starts
\* no run and leaves the edge map and the cells as they are; with a frame
\* enabled and cells cached it schedules regenerateFrame, which recomputes
\* the frame elements and the document only.  A change to frame style or
\* frame width on a loaded image schedules a full processImage run.
C7_FrameOnlyAndFrameGeometry ==
  [][/\ (\/ settings'.frameCellSize # settings.frameCellSize
         \/ settings'.frameHueShift # settings.frameHueShift)
          => /\ runs' = runs
             /\ workerQueue' = workerQueue
             /\ UNCHANGED <<edgesRef, voronoiCellsRef, coloredCellsRef>>
             /\ \A t \in timers' : t.kind = "regenerateFrame"
             /\ (coloredCellsRef # Null /\ settings.frameStyle # "none")
                  => Scheduled("regenerateFrame", settings', timers')
     /\ Fires("regenerateFrame")
          => /\ runs' = runs
             /\ workerQueue' = workerQueue
             /\ UNCHANGED <<edgesRef, voronoiCellsRef, coloredCellsRef>>
             /\ coloredCellsRef # Null =>
                  /\ frameElementsRef' =
                       FrameElements(loadedImageRef, settings.frameStyle,
                                     settings.frameWidth, settings.frameCellSize,
                                     settings.frameHueShift)
                  /\ svgString' = generateSVG(coloredCellsRef, settings.lineWidth,
                                              loadedImageRef, frameElementsRef',
                                              settings.lighting)
     /\ (/\ \/ settings'.frameStyle # settings.frameStyle
            \/ settings'.frameWidth # settings.frameWidth
         /\ loadedImageRef # 0)
          => Scheduled("processImage", settings', timers')]_vars

\* C7 witness: regenerateFrame wrote the visible document for a changed
\* frame cell size, over the cells the last run had generated
C7_Witness ==
  /\ lastWriter = "regenerateFrame"
  /\ svgString.frame = frameElementsRef
  /\ frameElementsRef.count > 0
  /\ frameElementsRef.cellSize = AltValue.frameCellSize
  /\ svgString.cells.cells.gen = lastPublisher

\* C8: the recorded edge-settings key is the key of the settings the cached
\* edge map was computed with; a run that leaves its animation frame asks
\* for a new edge map exactly when none is cached or the cached one was
\* computed with other edge settings, and otherwise goes on with the cached
\* map; a run that publishes leaves the map of its own edge settings cached.
C8_EdgeMapRecomputedIffEdgeSettingsDiffer ==
  /\ [](IF edgesRef = Null
        THEN lastEdgeSettingsRef = <<>>
        ELSE lastEdgeSettingsRef = <<edgesRef.edgeSensitivity>>)
  /\ [][\A r \in runs :
          /\ (r.pc = "raf" /\ ~\E q \in runs' : q.id = r.id /\ q.pc = "raf")
               => LET detect == \E q \in runs' : q.id = r.id /\ q.pc = "worker"
                  IN /\ detect <=>
                          (\/ edgesRef = Null
                           \/ edgesRef.edgeSensitivity # r.closure.edgeSensitivity)
                     /\ detect => workerQueue' =
                          Append(workerQueue, Request("run", r.id, r.img, r.closure))
                     /\ edgesRef' = edgesRef
          /\ Publishes(r)
               => /\ edgesRef'.edgeSensitivity = r.closure.edgeSensitivity
                  /\ svgString'.cells.cells.edges = edgesRef'
                  /\ r.pc = "raf" => edgesRef' = edgesRef]_vars

\* C8 witness: a debounced run has computed the edge map anew for changed
\* edge settings and published
C8_Witness ==
  /\ ChangesOnLoadedImage
  /\ lastPublisher > 1
  /\ edgesRef # Null
  /\ edgesRef.edgeSensitivity = AltValue.edgeSensitivity
  /\ svgString.cells.cells.edges = edgesRef
  /\ svgString.cells.cells.gen = lastPublisher

\* C10: when a run ends with an exception, error gets a message,
\* isProcessing becomes false and the visible document stays; afterwards a
\* change to a processImage dependency still schedules a run, and its timer
\* still starts one.
C10_RunFailureIsReportedAndNotFatal ==
  [][/\ \A r \in runs :
          (lastFailed # r.id /\ lastFailed' = r.id)
            => /\ processingState'.error # NoError
               /\ processingState'.isProcessing = FALSE
               /\ processingState'.isLoading = processingState.isLoading
               /\ svgString' = svgString
     /\ (/\ lastFailed # 0
         /\ loadedImageRef # 0
         /\ ProcessImageClosure(settings') # ProcessImageClosure(settings))
          => Scheduled("processImage", settings', timers')
     /\ (lastFailed # 0 /\ loadedImageRef # 0 /\ Fires("processImage"))
          => /\ nRuns' = nRuns + 1
             /\ \E q \in runs' : q.id = nRuns' /\ q.pc = "raf"
             /\ processingState'.isProcessing]_vars

\* C10 witness: a run failed while a document was visible, and a run
\* scheduled by a later settings change is in flight
C10_Witness ==
  /\ lastFailed # 0
  /\ processingState.error # NoError
  /\ svgString # Null
  /\ \E r \in runs : r.id > lastFailed /\ r.cause \in Fields


\* C11 (as claimed): when the decoding of a file that cannot be decoded or
\* has zero area ends, processingState.error carries the failure, isLoading
\* is false and no pipeline run has been started for the file.
C11_BadFileSurfacesError ==
  [][\A l \in loads :
       (l.pc = "decode" /\ l.file # "image" /\ l \notin loads')
         => /\ processingState'.error # NoError
            /\ processingState'.isLoading = FALSE
            /\ runs' = runs
            /\ nRuns' = nRuns
            /\ workerQueue' = workerQueue]_vars

\* a run resumes after its animation frame with the cached edge map
ReadsCachedEdges(r) ==
  r \in runs /\ r.pc = "raf" /\ r \notin runs' /\ ~NeedsEdges(r)

\* C25: whenever a run reads the cached edge map, the map was computed from
\* the currently loaded image, which is also the image the run works on.
C25_CachedEdgesOfLoadedImage ==
  [][\A r \in runs :
       ReadsCachedEdges(r) => (edgesRef.img = loadedImageRef /\ edgesRef.img = r.img)]_vars

\* C29: isProcessing is true whenever a processImage run is in flight and
\* false when none is.
C29_IsProcessingIffRunInFlight ==
  /\ runs # {} => processingState.isProcessing
  /\ runs = {} => ~processingState.isProcessing

\* ------------------------------------------------------- seed strategies
\* voronoi/generator.ts l.101-268.  Math.random() returns r / RandSteps for
\* some r in Rand.  Coordinates are counted in units of 1 / Unit pixel, so
\* that rand * width and x + rand - 0.5 are integers.
RandSteps == 2
MaxCount == 3       \* the largest count requested
MaxPoissonCount == 2 \* the largest count requested of the Poisson-disk strategy

Rand == 0 .. RandSteps - 1

Unit == 2 * RandSteps

\* the rectangles <<width, height>> (in pixels) the strategies are called with
SeedSizes == {<<2, 1>>, <<2, 2>>}

SeedCounts == 1 .. MaxCount

PoissonCounts == 1 .. MaxPoissonCount

\* Math.random() * extent
RandomCoord(r, extent) == 2 * r * extent

\* { x: Math.random() * width, y: Math.random() * height } (l.108-111, 167,
\* 207-210)
RandomPoint(rx, ry, width, height) ==
  [x |-> RandomCoord(rx, width), y |-> RandomCoord(ry, height)]

\* the edge maps of a width x height image: no edge, or an edge at pixel 0
EdgeMaps(width, height) ==
  {[i \in 0 .. width * height - 1 |-> 0],
   [i \in 0 .. width * height - 1 |-> IF i = 0 THEN 1 ELSE 0]}

\* edgeInfluence: 0 (uniform) or 1 (edge-weighted)
EdgeInfluences == {0, 1}

\* l.235: 1 - edgeInfluence + edgeInfluence * (edges[i] + 0.1), in tenths
Weight(e, edgeInfluence) == 10 - 10 * edgeInfluence + edgeInfluence * (10 * e + 1)

\* l.230-238: weights[i] is the sum of the weights up to i
RECURSIVE CumulativeWeight(_, _, _)
CumulativeWeight(edges, edgeInfluence, i) ==
  IF i < 0 THEN 0
  ELSE CumulativeWeight(edges, edgeInfluence, i - 1) + Weight(edges[i], edgeInfluence)

\* l.245-254: binary search for target = (r / RandSteps) * totalWeight
RECURSIVE BinarySearch(_, _, _, _, _, _)
BinarySearch(edges, edgeInfluence, r, totalWeight, lo, hi) ==
  IF lo < hi
  THEN LET mid == (lo + hi) \div 2
       IN IF CumulativeWeight(edges, edgeInfluence, mid) * RandSteps < r * totalWeight
          THEN BinarySearch(edges, edgeInfluence, r, totalWeight, mid + 1, hi)
          ELSE BinarySearch(edges, edgeInfluence, r, totalWeight, lo, mid)
  ELSE lo


\* l.257-264: the pixel of index lo, with a jitter of Math.random() - 0.5
JitteredPoint(lo, width, rx, ry) ==
  [x |-> (lo % width) * Unit + 2 * rx - RandSteps,
   y |-> (lo \div width) * Unit + 2 * ry - RandSteps]

DistSq(p, q) == (p.x - q.x) * (p.x - q.x) + (p.y - q.y) * (p.y - q.y)

\* l.127: minDist = sqrt(width * height / count / PI) * 0.8.  With PI taken
\* as 355 / 113, a squared length d2 (in units) is below n * minDist^2
\* exactly when d2 * MinDistDen(count) < n * MinDistNum(width, height).
MinDistNum(width, height) == 64 * width * height * Unit * Unit * 113

MinDistDen(count) == 35500 * count

\* dist < minDist (l.160)
BelowMinDist(d2, s) == d2 * MinDistDen(s.count) < MinDistNum(s.width, s.height)

GridBound == 4 * (MaxCount + MaxPoissonCount)

\* Math.floor(x / cellSize) with cellSize = minDist / SQRT2 (l.128, 139-140)
GridCoord(x, s) ==
  CHOOSE g \in 0 .. GridBound :
    /\ g * g * MinDistNum(s.width, s.height) <= 2 * x * x * MinDistDen(s.count)
    /\ (g + 1) * (g + 1) * MinDistNum(s.width, s.height) > 2 * x * x * MinDistDen(s.count)

\* Math.ceil(extent / cellSize) (l.129-130)
GridSize(extent, s) ==
  CHOOSE g \in 0 .. GridBound :
    /\ g * g * MinDistNum(s.width, s.height)
         >= 2 * extent * extent * Unit * Unit * MinDistDen(s.count)
    /\ g = 0 \/ (g - 1) * (g - 1) * MinDistNum(s.width, s.height)
                  < 2 * extent * extent * Unit * Unit * MinDistDen(s.count)

\* l.137-142
gridIndex(p, s) == GridCoord(p.y, s) * GridSize(s.width, s) + GridCoord(p.x, s)

\* l.145-165
isTooClose(p, s) ==
  LET gx == GridCoord(p.x, s)
      gy == GridCoord(p.y, s)
      gridWidth == GridSize(s.width, s)
      gridHeight == GridSize(s.height, s)
  IN \E dy \in -2 .. 2, dx \in -2 .. 2 :
       LET nx == gx + dx
           ny == gy + dy
       IN /\ nx >= 0 /\ nx < gridWidth /\ ny >= 0 /\ ny < gridHeight
          /\ s.grid[ny * gridWidth + nx] # Null
          /\ BelowMinDist(DistSq(p, s.grid[ny * gridWidth + nx]), s)

\* l.178-183: the points at a distance in [minDist, 2 minDist) of point, in
\* any direction (those of them on the lattice of half pixels)
Candidates(point, s) ==
  LET reach == 2 * (s.width + s.height)
      steps == {RandSteps * k : k \in -reach .. reach}
  IN {q \in [x : {point.x + d : d \in steps}, y : {point.y + d : d \in steps}] :
        /\ ~BelowMinDist(DistSq(q, point), s)
        /\ DistSq(q, point) * MinDistDen(s.count) < 4 * MinDistNum(s.width, s.height)}

\* l.185-191
Accepted(q, s) ==
  /\ q.x >= 0 /\ q.x < s.width * Unit
  /\ q.y >= 0 /\ q.y < s.height * Unit
  /\ ~isTooClose(q, s)

RemoveAt(seq, idx) == SubSeq(seq, 1, idx - 1) \o SubSeq(seq, idx + 1, Len(seq))

\* what a finished call keeps: its arguments, the array returned and, as
\* history, how many points the loops had placed and how many of them the
\* top-up loop added
Returned(s, points) ==
  [pc |-> "done", strategy |-> s.strategy, width |-> s.width, height |-> s.height,
   count |-> s.count, result |-> points, placed |-> Len(s.points),
   toppedUp |-> s.toppedUp]

\* mutant: the array is returned whole
SliceAll(points, count) == points

\* points.slice(0, count) (l.213)
Slice(points, count) == SubSeq(points, 1, IF count < Len(points) THEN count ELSE Len(points))

\* new Delaunay(flatPoints) (l.30): of the points that coincide the
\* triangulation keeps one, whichever its sort puts first; triangulations
\* are given by the set of the indices kept
Triangulations(points) ==
  {kept \in SUBSET (0 .. Len(points) - 1) :
     \A i \in 0 .. Len(points) - 1 :
       \E j \in kept :
         /\ points[j + 1] = points[i + 1]
         /\ \A k \in kept : points[k + 1] = points[i + 1] => k = j}

\* voronoi.cellPolygon(i) of d3-delaunay, called at l.36: null for a point
\* the triangulation left out, else the polygon of the cell (here: the site
\* it belongs to)
cellPolygon(points, i, kept) ==
  IF i \in kept THEN [site |-> points[i + 1]] ELSE Null

\* mutant: the cells are numbered by their place in the array returned
RECURSIVE CellsRenumbered(_, _, _, _)
CellsRenumbered(points, kept, i, cells) ==
  IF i >= Len(points) THEN cells
  ELSE CellsRenumbered(points, kept, i + 1,
         IF cellPolygon(points, i, kept) # Null
         THEN Append(cells, [index |-> Len(cells),
                             polygon |-> cellPolygon(points, i, kept)])
         ELSE cells)

\* the loop of l.35-55 from point i on, cells being the array built so far
RECURSIVE Cells(_, _, _, _)
Cells(points, kept, i, cells) ==
  IF i >= Len(points) THEN cells
  ELSE Cells(points, kept, i + 1,
         IF cellPolygon(points, i, kept) # Null
         THEN Append(cells, [index |-> i, polygon |-> cellPolygon(points, i, kept)])
         ELSE cells)


\* generateUniformPoints(width, height, count) is called (l.101-106)
CallUniform(size, count) ==
  /\ seed = Idle
  /\ seed' = [pc |-> "uniform", strategy |-> "uniform", width |-> size[1],
              height |-> size[2], count |-> count, points |-> <<>>, toppedUp |-> 0]
  /\ UNCHANGED <<vars, voronoiResult, svgDoc, sampled, newVars>>

\* one pass of the loop of l.107-112
UniformPush(rx, ry) ==
  /\ seed.pc = "uniform"
  /\ Len(seed.points) < seed.count
  /\ seed' = [seed EXCEPT
               !.points = Append(@, RandomPoint(rx, ry, seed.width, seed.height))]
  /\ UNCHANGED <<vars, voronoiResult, svgDoc, sampled, newVars>>

\* l.113
UniformReturn ==
  /\ seed.pc = "uniform"
  /\ Len(seed.points) >= seed.count
  /\ seed' = Returned(seed, seed.points)
  /\ UNCHANGED <<vars, voronoiResult, svgDoc, sampled, newVars>>

\* generateEdgeWeightedPoints(edges, width, height, count, edgeInfluence) is
\* called (l.220-238)
CallEdgeWeighted(size, count, edges, edgeInfluence) ==
  /\ seed = Idle
  /\ seed' = [pc |-> "edge-weighted", strategy |-> "edge-weighted",
              width |-> size[1], height |-> size[2], count |-> count,
              edges |-> edges, edgeInfluence |-> edgeInfluence, points |-> <<>>,
              toppedUp |-> 0]
  /\ UNCHANGED <<vars, voronoiResult, svgDoc, sampled, newVars>>

\* one pass of the loop of l.241-265
EdgeWeightedPush(r, rx, ry) ==
  /\ seed.pc = "edge-weighted"
  /\ Len(seed.points) < seed.count
  /\ LET last == seed.width * seed.height - 1
         totalWeight == CumulativeWeight(seed.edges, seed.edgeInfluence, last)
         lo == BinarySearch(seed.edges, seed.edgeInfluence, r, totalWeight, 0, last)
     IN seed' = [seed EXCEPT
                  !.points = Append(@, JitteredPoint(lo, seed.width, rx, ry))]
  /\ UNCHANGED <<vars, voronoiResult, svgDoc, sampled, newVars>>

\* l.267
EdgeWeightedReturn ==
  /\ seed.pc = "edge-weighted"
  /\ Len(seed.points) >= seed.count
  /\ seed' = Returned(seed, seed.points)
  /\ UNCHANGED <<vars, voronoiResult, svgDoc, sampled, newVars>>

\* generatePoissonPoints(width, height, count) is called and places its
\* first point (l.120-170)
CallPoisson(size, count, rx, ry) ==
  /\ seed = Idle
  /\ LET s == [width |-> size[1], height |-> size[2], count |-> count]
         firstPoint == RandomPoint(rx, ry, size[1], size[2])
         cells == 0 .. GridSize(s.width, s) * GridSize(s.height, s) - 1
     IN seed' = [pc |-> "poisson", strategy |-> "poisson", width |-> s.width,
                 height |-> s.height, count |-> count,
                 points |-> <<firstPoint>>, activeList |-> <<firstPoint>>,
                 toppedUp |-> 0,
                 grid |-> [c \in cells |->
                             IF c = gridIndex(firstPoint, s) THEN firstPoint ELSE Null]]
  /\ UNCHANGED <<vars, voronoiResult, svgDoc, sampled, newVars>>

\* l.172: the condition of the while loop
PoissonLooping ==
  /\ seed.pc = "poisson"
  /\ Len(seed.activeList) > 0
  /\ Len(seed.points) < seed.count * 2

\* one pass of the loop of l.172-200 in which one of the k = 30 candidates
\* is accepted
PoissonFound ==
  /\ PoissonLooping
  /\ \E idx \in 1 .. Len(seed.activeList) :
       \E q \in Candidates(seed.activeList[idx], seed) :
         /\ Accepted(q, seed)
         /\ seed' = [seed EXCEPT !.points = Append(@, q),
                                 !.activeList = Append(@, q),
                                 !.grid[gridIndex(q, seed)] = q]
  /\ UNCHANGED <<vars, voronoiResult, svgDoc, sampled, newVars>>

\* one pass of the loop in which every candidate drawn is rejected (l.197-199)
PoissonNotFound ==
  /\ PoissonLooping
  /\ \E idx \in 1 .. Len(seed.activeList) :
       /\ \E q \in Candidates(seed.activeList[idx], seed) : ~Accepted(q, seed)
       /\ seed' = [seed EXCEPT !.activeList = RemoveAt(@, idx)]
  /\ UNCHANGED <<vars, voronoiResult, svgDoc, sampled, newVars>>

\* one pass of the loop of l.205-211
PoissonTopUp(rx, ry) ==
  /\ seed.pc = "poisson"
  /\ ~PoissonLooping
  /\ Len(seed.points) < seed.count
  /\ seed' = [seed EXCEPT
               !.points = Append(@, RandomPoint(rx, ry, seed.width, seed.height)),
               !.toppedUp = @ + 1]
  /\ UNCHANGED <<vars, voronoiResult, svgDoc, sampled, newVars>>

\* l.213: points.slice(0, count)
PoissonReturn ==
  /\ seed.pc = "poisson"
  /\ ~PoissonLooping
  /\ Len(seed.points) >= seed.count
  /\ seed' = Returned(seed, Slice(seed.points, seed.count))
  /\ UNCHANGED <<vars, voronoiResult, svgDoc, sampled, newVars>>

\* generateVoronoi(points, width, height) on the points a strategy returned
\* (l.21-58)
Tessellate ==
  /\ seed.pc = "done"
  /\ voronoiResult = Null
  /\ \E kept \in Triangulations(seed.result) :
       voronoiResult' = [cells |-> Cells(seed.result, kept, 0, <<>>),
                         width |-> seed.width, height |-> seed.height]
  /\ UNCHANGED <<vars, seed, svgDoc, sampled, newVars>>

SeedNext ==
  \/ \E size \in SeedSizes, count \in SeedCounts : CallUniform(size, count)
  \/ \E rx \in Rand, ry \in Rand : UniformPush(rx, ry)
  \/ UniformReturn
  \/ \E size \in SeedSizes, count \in SeedCounts :
       \E edges \in EdgeMaps(size[1], size[2]), edgeInfluence \in EdgeInfluences :
         CallEdgeWeighted(size, count, edges, edgeInfluence)
  \/ \E r \in Rand, rx \in Rand, ry \in Rand : EdgeWeightedPush(r, rx, ry)
  \/ EdgeWeightedReturn
  \/ \E size \in SeedSizes, count \in PoissonCounts :
       \E rx \in Rand, ry \in Rand : CallPoisson(size, count, rx, ry)
  \/ PoissonFound
  \/ PoissonNotFound
  \/ \E rx \in Rand, ry \in Rand : PoissonTopUp(rx, ry)
  \/ PoissonReturn
  \/ Tessellate

SeedSpec == Init /\ [][SeedNext]_<<vars, pureVars>>


\* C16: every seed strategy returns exactly count points.
C16_ExactlyCountPoints ==
  seed.pc = "done" => Len(seed.result) = seed.count

\* C16 witness: a Poisson-disk call whose loop ended short of count has
\* returned, topped up with uniform random points
C16_Witness ==
  /\ seed.pc = "done"
  /\ seed.strategy = "poisson"
  /\ seed.toppedUp > 0
  /\ Len(seed.result) = seed.count

\* C17 (as claimed): every point returned lies within the rectangle asked for.
C17_PointsWithinRectangle ==
  seed.pc = "done" =>
    \A i \in 1 .. Len(seed.result) :
      /\ 0 <= seed.result[i].x /\ seed.result[i].x <= seed.width * Unit
      /\ 0 <= seed.result[i].y /\ seed.result[i].y <= seed.height * Unit

\* C19 (as claimed): the points a Poisson-disk call returns are pairwise at
\* least minDist apart.
C19_PoissonMinimumDistance ==
  (seed.pc = "done" /\ seed.strategy = "poisson") =>
    \A i \in 1 .. Len(seed.result), j \in 1 .. Len(seed.result) :
      i < j => ~BelowMinDist(DistSq(seed.result[i], seed.result[j]), seed)

\* C18 (as claimed): the index of every cell is its place in the array.
C18_IndexIsArrayPosition ==
  voronoiResult # Null =>
    \A k \in 1 .. Len(voronoiResult.cells) : voronoiResult.cells[k].index = k - 1

\* C18 (amended): the index of every cell is the place of its seed point in
\* the array of points; the cells are in the order of their indices; the
\* index is the place in the array of cells when no cell was dropped.
C18_IndexIsSeedPosition ==
  voronoiResult # Null =>
    LET cells == voronoiResult.cells
        points == seed.result
    IN /\ \A k \in 1 .. Len(cells) :
            /\ cells[k].index \in 0 .. Len(points) - 1
            /\ cells[k].polygon.site = points[cells[k].index + 1]
            /\ cells[k].index >= k - 1
       /\ \A k \in 1 .. Len(cells) - 1 : cells[k].index < cells[k + 1].index
       /\ Len(cells) = Len(points) => \A k \in 1 .. Len(cells) : cells[k].index = k - 1

\* C18 witness: a cell was dropped and a cell after it was kept
C18_Witness ==
  /\ voronoiResult # Null
  /\ Len(voronoiResult.cells) < Len(seed.result)
  /\ \E k \in 1 .. Len(voronoiResult.cells) : voronoiResult.cells[k].index > k - 1


\* ------------------------------------------------------------ generateSVG
\* svg/generator.ts l.59-135 with the lighting functions it calls.  A
\* document is the sequence of its layers.  A cell is given by the centroid
\* of its polygon and its color; numbers that are fractions in the source
\* are counted in percent (intensities) or per mille (brightness).
Undefined == [undefined |-> TRUE]

MaxRays == 2        \* the largest rays.count
MaxCells == 2       \* the largest number of cells of a document

\* width and height of the image of the documents
SvgSize == 4

\* a pure red and a gray
CellColors == {[r |-> 200, g |-> 0, b |-> 0], [r |-> 120, g |-> 120, b |-> 120]}

CellCentroids == {[x |-> 1, y |-> 1], [x |-> 3, y |-> 3]}

ColoredCells == [centroid : CellCentroids, color : CellColors]

CellArrays == UNION {[1 .. n -> ColoredCells] : n \in 0 .. MaxCells}

\* LightSettings (types/index.ts l.75-95) with the preset 'center'
LightSettings ==
  [enabled : BOOLEAN, preset : {"center"}, elevation : {45}, intensity : {100, 200},
   ambient : {300}, darkMode : BOOLEAN,
   rays : [enabled : BOOLEAN, count : 1 .. MaxRays, intensity : {0, 50}],
   glow : [enabled : BOOLEAN, intensity : {0, 50}]]

\* SVGOptions (l.39-46); lighting is optional
SVGOptions ==
  [lineWidth : {2}, lineColor : {"#000000"}, width : {SvgSize}, height : {SvgSize},
   frameElements : {<<>>, <<[color |-> [r |-> 10, g |-> 10, b |-> 10]]>>},
   lighting : LightSettings \cup {Undefined}]

\* lighting?.enabled
Enabled(lighting) == lighting # Undefined /\ lighting.enabled

Min(a, b) == IF a < b THEN a ELSE b

Max(a, b) == IF a > b THEN a ELSE b

\* lighting/filters.ts l.6-42: the filters of the <defs> element
generateLightingDefs(lighting) ==
  IF ~lighting.enabled THEN <<>>
  ELSE (IF lighting.glow.enabled /\ lighting.glow.intensity > 0
          THEN <<"glowFilter">> ELSE <<>>)
       \o (IF lighting.rays.enabled /\ lighting.rays.intensity > 0
             THEN <<"rayFilter">> ELSE <<>>)

\* calculateCellBrightness (voronoi/generator.ts l.482-532), per mille, for the
\* centred light: 0.5 + (lightElevation / 90) * 0.5
calculateCellBrightness(lightElevation) == 500 + (lightElevation * 500) \div 90

\* Math.round(v * brightness), brightness per mille
Scaled(v, brightness) == (v * brightness + 500) \div 1000

\* adjustBrightness (voronoi/generator.ts l.539-595): the lightness of the color
\* is multiplied by the brightness and capped at 1, hue and saturation kept.
\* For a gray (s = 0) every channel becomes round(l' * 255); for a pure red
\* (h = 0, s = 1) the red channel is round(q * 255) and the others
\* round(p * 255) with q = 2l', p = 0 below l' = 0.5 and q = 1, p = 2l' - 1
\* from there on.
adjustBrightness(color, brightness) ==
  IF color.r = color.g /\ color.g = color.b
    THEN LET v == Min(255, Scaled(color.r, brightness))
         IN  [r |-> v, g |-> v, b |-> v]
    ELSE IF color.r * brightness < 255000
      THEN [r |-> Scaled(color.r, brightness), g |-> 0, b |-> 0]
      ELSE LET p == Min(510, Scaled(color.r, brightness)) - 255
           IN  [r |-> 255, g |-> p, b |-> p]

\* applyLightTransmission (voronoi/generator.ts l.601-643)
applyLightTransmission(cells, lighting) ==
  IF ~lighting.enabled THEN cells
  ELSE LET positionBrightness == calculateCellBrightness(lighting.elevation)
           ambientAdjusted == lighting.ambient
                              + ((1000 - lighting.ambient) * positionBrightness) \div 1000
           finalBrightness == (ambientAdjusted * lighting.intensity) \div 100
       IN  [i \in 1 .. Len(cells) |->
              [cells[i] EXCEPT !.color = adjustBrightness(@, finalBrightness)]]

\* Math.ceil(Math.sqrt(lighting.rays.count * 2)) (svg/generator.ts l.84)
GridSizeOf(count) ==
  CHOOSE g \in 0 .. 2 * count : g * g >= 2 * count /\ (g = 0 \/ (g - 1) * (g - 1) < 2 * count)

\* the grid position of a centroid (rays.ts l.336-337)
GridPos(c, gridSize, extent) == Min((c * gridSize) \div extent, gridSize - 1)

\* Math.round(total / n)
RoundDiv(total, n) == (2 * total + n) \div (2 * n)

RECURSIVE Sum(_, _)
Sum(cells, channel) ==
  IF cells = <<>> THEN 0
  ELSE (IF channel = "r" THEN Head(cells).color.r
        ELSE IF channel = "g" THEN Head(cells).color.g ELSE Head(cells).color.b)
       + Sum(Tail(cells), channel)

\* calculateDominantColor (rays.ts l.379-396)
calculateDominantColor(cells) ==
  IF cells = <<>> THEN [r |-> 255, g |-> 255, b |-> 255]
  ELSE [r |-> RoundDiv(Sum(cells, "r"), Len(cells)),
        g |-> RoundDiv(Sum(cells, "g"), Len(cells)),
        b |-> RoundDiv(Sum(cells, "b"), Len(cells))]

\* clusterCells (rays.ts l.319-365): the non-empty grid squares, row by row;
\* square k of the walk is (x, y) = (k % gridSize, k \div gridSize)
RECURSIVE ClustersFrom(_, _, _, _, _)
ClustersFrom(cells, gridSize, width, height, k) ==
  IF k >= gridSize * gridSize THEN <<>>
  ELSE LET x == k % gridSize
           y == k \div gridSize
           InSquare(cell) == /\ GridPos(cell.centroid.x, gridSize, width) = x
                             /\ GridPos(cell.centroid.y, gridSize, height) = y
           clusterCellsHere == SelectSeq(cells, InSquare)
       IN  (IF clusterCellsHere = <<>> THEN <<>>
            ELSE <<[cells |-> clusterCellsHere, centroid |-> [x |-> x, y |-> y],
                    dominantColor |-> calculateDominantColor(clusterCellsHere)]>>)
           \o ClustersFrom(cells, gridSize, width, height, k + 1)

clusterCells(cells, gridSize, width, height) ==
  ClustersFrom(cells, gridSize, width, height, 0)

\* getColorVibrance (rays.ts l.518-533), times 510000
getColorVibrance(color) ==
  LET max == Max(color.r, Max(color.g, color.b))
      min == Min(color.r, Min(color.g, color.b))
  IN  IF max = min THEN 0
      ELSE IF max + min > 255
        THEN ((max - min) * (max + min) * 1000) \div (510 - max - min)
        ELSE (max - min) * 1000

\* [...clusters].sort((a, b) => bVibrance - aVibrance) (rays.ts l.444-448):
\* a stable sort, the most vibrant first
RECURSIVE Insert(_, _)
Insert(sorted, cluster) ==
  IF sorted = <<>> THEN <<cluster>>
  ELSE IF getColorVibrance(Head(sorted).dominantColor) >= getColorVibrance(cluster.dominantColor)
    THEN <<Head(sorted)>> \o Insert(Tail(sorted), cluster)
    ELSE <<cluster>> \o sorted

RECURSIVE SortByVibrance(_, _)
SortByVibrance(clusters, sorted) ==
  IF clusters = <<>> THEN sorted
  ELSE SortByVibrance(Tail(clusters), Insert(sorted, Head(clusters)))

\* mutant: every cluster gets a ray
RayCountUncapped(count, clusters) == clusters

\* const rayCount = Math.min(lighting.rays.count, sortedClusters.length)
\* (rays.ts l.451)
RayCount(count, clusters) == Min(count, clusters)

\* the two values of Math.random() drawn for a ray (rays.ts l.482-483)
RayDraws == [width : Rand, length : Rand]

\* generateGodRays (rays.ts l.430-513); random[i] holds the draws of the
\* i-th selected cluster.  A width is baseWidth * (0.5 + draw * 0.5), a
\* length the layer's length * (0.7 + draw * 0.3): both are kept as the pair
\* of the ray count that fixes the base and the draw.
generateGodRays(clusters, lighting, random) ==
  IF ~lighting.enabled \/ ~lighting.rays.enabled \/ clusters = <<>>
    THEN [backRays |-> <<>>, frontRays |-> <<>>]
    ELSE LET sortedClusters == SortByVibrance(clusters, <<>>)
             rayCount == RayCount(lighting.rays.count, Len(sortedClusters))
             selectedClusters == SubSeq(sortedClusters, 1, rayCount)
             Ray(i, opacity) ==
               [origin |-> selectedClusters[i].centroid,
                direction |-> <<i - 1, rayCount>>,
                color |-> selectedClusters[i].dominantColor,
                opacity |-> (lighting.rays.intensity * opacity) \div 10,
                width |-> <<rayCount, random[i].width>>,
                length |-> random[i].length]
         IN  [backRays |-> [i \in 1 .. rayCount |-> Ray(i, 8)],
              frontRays |-> [i \in 1 .. rayCount |-> Ray(i, 5)]]

\* the ray color lightened by an amount (rays.ts l.579-583, l.642-646)
Lightened(color, by) ==
  [r |-> Min(255, color.r + by), g |-> Min(255, color.g + by), b |-> Min(255, color.b + by)]

\* renderBackRaysToSVG (rays.ts l.546-600): no layer for no rays, else one
\* group with one trapezoid per ray
renderBackRaysToSVG(rays) ==
  IF rays = <<>> THEN <<>>
  ELSE <<[layer |-> "back-light-rays", blend |-> "screen",
          polygons |-> [i \in 1 .. Len(rays) |->
                          [ray |-> rays[i], fill |-> Lightened(rays[i].color, 80),
                           filter |-> "rayFilter"]]]>>

\* renderFrontRaysToSVG (rays.ts l.607-677)
renderFrontRaysToSVG(rays, darkMode) ==
  IF rays = <<>> THEN <<>>
  ELSE <<[layer |-> "front-light-rays",
          blend |-> IF darkMode THEN "screen" ELSE "soft-light",
          polygons |-> [i \in 1 .. Len(rays) |->
                          [ray |-> rays[i], fill |-> Lightened(rays[i].color, 50),
                           filter |-> "rayFilter"]]]>>

\* renderGlowLayer (voronoi/generator.ts l.341-372): one path per cell, its saturation
\* boosted by 1.3
renderGlowLayer(cells, lighting) ==
  IF ~lighting.enabled \/ ~lighting.glow.enabled \/ lighting.glow.intensity = 0
    THEN <<>>
    ELSE <<[layer |-> "glow-layer", filter |-> "glowFilter",
            blend |-> IF lighting.darkMode THEN "screen" ELSE "multiply",
            opacity |-> (lighting.glow.intensity * (IF lighting.darkMode THEN 15 ELSE 10) * 7) \div 100,
            paths |-> [i \in 1 .. Len(cells) |-> [boost |-> 130, cell |-> cells[i]]]]>>

\* The layers generateSVG pushes (svg/generator.ts l.59-135), one operator
\* per push.
DefsPart(lighting) ==
  IF Enabled(lighting) /\ generateLightingDefs(lighting) # <<>>
    THEN <<[layer |-> "defs", filters |-> generateLightingDefs(lighting)]>>
    ELSE <<>>

\* mutant: the background follows darkMode alone
bgColorDarkModeOnly(lighting) ==
  IF lighting # Undefined /\ lighting.darkMode THEN "#1a1a1a" ELSE "#ffffff"

\* svg/generator.ts l.78
bgColor(lighting) == IF Enabled(lighting) /\ lighting.darkMode THEN "#1a1a1a" ELSE "#ffffff"

BackgroundPart(options) ==
  <<[layer |-> "background", width |-> options.width, height |-> options.height,
     fill |-> bgColor(options.lighting)]>>

FramePart(options) ==
  IF Len(options.frameElements) > 0
    THEN <<[layer |-> "frame",
            paths |-> [i \in 1 .. Len(options.frameElements) |->
                         [fill |-> options.frameElements[i].color,
                          stroke |-> options.lineColor, strokeWidth |-> options.lineWidth]]]>>
    ELSE <<>>

ArtworkPart(litCells, options) ==
  <<[layer |-> "artwork",
     paths |-> [i \in 1 .. Len(litCells) |->
                  [d |-> litCells[i].centroid, fill |-> litCells[i].color,
                   stroke |-> options.lineColor, strokeWidth |-> options.lineWidth]]]>>

GlowPart(litCells, lighting) ==
  IF Enabled(lighting) /\ lighting.glow.enabled THEN renderGlowLayer(litCells, lighting)
  ELSE <<>>

\* mutant: the glow layer is pushed before the artwork
SvgPartsGlowUnderArtwork(defs, background, backRays, frame, artwork, frontRays, glow) ==
  defs \o background \o backRays \o frame \o glow \o artwork \o frontRays

\* the order of the pushes
SvgParts(defs, background, backRays, frame, artwork, frontRays, glow) ==
  defs \o background \o backRays \o frame \o artwork \o frontRays \o glow

\* generateSVG (svg/generator.ts l.59-135): the document as the sequence of
\* its layers
generateSVGParts(cells, options, random) ==
  LET lighting == options.lighting
      litCells == IF Enabled(lighting) THEN applyLightTransmission(cells, lighting)
                  ELSE cells
      raySet == IF Enabled(lighting) /\ lighting.rays.enabled
                  THEN generateGodRays(
                         clusterCells(litCells, GridSizeOf(lighting.rays.count),
                                      options.width, options.height),
                         lighting, random)
                  ELSE [backRays |-> <<>>, frontRays |-> <<>>]
  IN  SvgParts(DefsPart(lighting),
               BackgroundPart(options),
               renderBackRaysToSVG(raySet.backRays),
               FramePart(options),
               ArtworkPart(litCells, options),
               renderFrontRaysToSVG(raySet.frontRays,
                                    Enabled(lighting) /\ lighting.darkMode),
               GlowPart(litCells, lighting))

\* how many of the draws a call consumes: two per ray
RaysOf(cells, options) ==
  IF Enabled(options.lighting) /\ options.lighting.rays.enabled
    THEN RayCount(options.lighting.rays.count,
                  Len(clusterCells(applyLightTransmission(cells, options.lighting),
                                   GridSizeOf(options.lighting.rays.count),
                                   options.width, options.height)))
    ELSE 0

\* generateSVG is called with cells and options
CallGenerateSVG(cells, options) ==
  /\ svgDoc = Null
  /\ \E random \in [1 .. RaysOf(cells, options) -> RayDraws] :
       svgDoc' = [cells |-> cells, options |-> options,
                  document |-> generateSVGParts(cells, options, random)]
  /\ UNCHANGED <<vars, seed, voronoiResult, sampled, newVars>>

\* generateSVG is called again with the arguments of the last call
\* (regenerateSVG, hooks/useWorker.ts)
CallGenerateSVGAgain ==
  /\ svgDoc # Null
  /\ \E random \in [1 .. RaysOf(svgDoc.cells, svgDoc.options) -> RayDraws] :
       svgDoc' = [svgDoc EXCEPT
                    !.document = generateSVGParts(svgDoc.cells, svgDoc.options, random)]
  /\ UNCHANGED <<vars, seed, voronoiResult, sampled, newVars>>

SvgNext ==
  \/ \E cells \in CellArrays, options \in SVGOptions : CallGenerateSVG(cells, options)
  \/ CallGenerateSVGAgain

SvgSpec == Init /\ [][SvgNext]_<<vars, pureVars>>

\* ------------------------------------------------------------ claims on generateSVG
LayerOrder ==
  <<"defs", "background", "back-light-rays", "frame", "artwork", "front-light-rays",
    "glow-layer">>

LayerRank(part) == CHOOSE k \in 1 .. Len(LayerOrder) : LayerOrder[k] = part.layer

Layers(document, name) == {i \in 1 .. Len(document) : document[i].layer = name}

C14_DisabledLightingIsNoLighting ==
  (svgDoc # Null /\ svgDoc.options.lighting # Undefined /\ ~svgDoc.options.lighting.enabled) =>
    /\ svgDoc.document
         = generateSVGParts(svgDoc.cells, [svgDoc.options EXCEPT !.lighting = Undefined], <<>>)
    /\ \A name \in {"defs", "back-light-rays", "front-light-rays", "glow-layer"} :
         Layers(svgDoc.document, name) = {}
    /\ \A i \in Layers(svgDoc.document, "artwork") :
         /\ Len(svgDoc.document[i].paths) = Len(svgDoc.cells)
         /\ \A k \in 1 .. Len(svgDoc.cells) :
              svgDoc.document[i].paths[k].fill = svgDoc.cells[k].color

\* lighting disabled with dark mode, rays and glow switched on, on cells
C14_Witness ==
  /\ svgDoc # Null
  /\ svgDoc.options.lighting # Undefined
  /\ ~svgDoc.options.lighting.enabled
  /\ svgDoc.options.lighting.darkMode
  /\ svgDoc.options.lighting.rays.enabled
  /\ svgDoc.options.lighting.rays.intensity > 0
  /\ svgDoc.options.lighting.glow.enabled
  /\ svgDoc.options.lighting.glow.intensity > 0
  /\ Len(svgDoc.cells) = MaxCells

\* the grid squares of the clustering that hold a cell of the document
OccupiedSquares(doc) ==
  LET gridSize == GridSizeOf(doc.options.lighting.rays.count)
      lit == applyLightTransmission(doc.cells, doc.options.lighting)
  IN  {<<GridPos(lit[i].centroid.x, gridSize, doc.options.width),
         GridPos(lit[i].centroid.y, gridSize, doc.options.height)>> : i \in 1 .. Len(lit)}

Trapezoids(document, name) ==
  IF Layers(document, name) = {} THEN 0
  ELSE Len(document[CHOOSE i \in Layers(document, name) : TRUE].polygons)

\* C15: with lighting and rays enabled the document has at most one back-ray
\* layer and at most one front-ray layer, and each holds
\* min(rays.count, number of cell clusters) trapezoids, never more than
\* rays.count.
C15_RayLayersHoldMinCountClusters ==
  (svgDoc # Null /\ Enabled(svgDoc.options.lighting) /\ svgDoc.options.lighting.rays.enabled) =>
    /\ Cardinality(Layers(svgDoc.document, "back-light-rays")) <= 1
    /\ Cardinality(Layers(svgDoc.document, "front-light-rays")) <= 1
    /\ Trapezoids(svgDoc.document, "back-light-rays")
         = Min(svgDoc.options.lighting.rays.count, Cardinality(OccupiedSquares(svgDoc)))
    /\ Trapezoids(svgDoc.document, "front-light-rays")
         = Trapezoids(svgDoc.document, "back-light-rays")
    /\ Trapezoids(svgDoc.document, "back-light-rays") <= svgDoc.options.lighting.rays.count

\* more clusters than rays.count: the rays are capped
C15_Witness ==
  /\ svgDoc # Null
  /\ Enabled(svgDoc.options.lighting)
  /\ svgDoc.options.lighting.rays.enabled
  /\ Cardinality(OccupiedSquares(svgDoc)) > svgDoc.options.lighting.rays.count
  /\ Trapezoids(svgDoc.document, "front-light-rays") = svgDoc.options.lighting.rays.count

\* C12: two calls with identical cells and identical settings give equal
\* documents.
C12_SameInputsSameDocument ==
  [][(svgDoc # Null /\ svgDoc' # Null
      /\ svgDoc'.cells = svgDoc.cells /\ svgDoc'.options = svgDoc.options)
     => svgDoc'.document = svgDoc.document]_<<vars, pureVars>>

\* the filters defined in the <defs> element of a document
DefinedFilters(document) ==
  UNION {{document[i].filters[k] : k \in 1 .. Len(document[i].filters)} :
           i \in Layers(document, "defs")}

\* the filters referenced by the ray polygons and the glow group
ReferencedFilters(document) ==
  UNION {{document[i].polygons[k].filter : k \in 1 .. Len(document[i].polygons)} :
           i \in Layers(document, "back-light-rays") \cup Layers(document, "front-light-rays")}
  \cup {document[i].filter : i \in Layers(document, "glow-layer")}

\* C30: in every document of generateSVG each filter referenced by a ray or
\* glow element is defined in the document's filter definitions, for every
\* combination of lighting settings.
C30_ReferencedFiltersAreDefined ==
  svgDoc # Null => ReferencedFilters(svgDoc.document) \subseteq DefinedFilters(svgDoc.document)

\* ------------------------------------------------------------ sampleColors
\* color-palettes.ts with image/color-sampler.ts (l.374-649).  Saturation
\* and brightness are counted in halves (2 = 100%), which keeps the HSL
\* arithmetic of adjustColor exact in integers.
MaxAdjust == 4      \* the largest saturation and brightness, in halves (0-2)

\* the colors of 'monochrome-blue' (l.190-207)
MonochromeBlue ==
  <<[r |-> 0, g |-> 0, b |-> 30], [r |-> 0, g |-> 0, b |-> 51],
    [r |-> 0, g |-> 30, b |-> 80], [r |-> 0, g |-> 51, b |-> 102],
    [r |-> 0, g |-> 80, b |-> 140], [r |-> 0, g |-> 102, b |-> 153],
    [r |-> 30, g |-> 130, b |-> 180], [r |-> 51, g |-> 153, b |-> 204],
    [r |-> 100, g |-> 180, b |-> 230], [r |-> 153, g |-> 204, b |-> 255],
    [r |-> 180, g |-> 220, b |-> 255], [r |-> 204, g |-> 229, b |-> 255],
    [r |-> 230, g |-> 242, b |-> 255]>>

ColorPaletteIds == {"original", "monochrome-blue"}

\* getPaletteById (l.346-349)
getPaletteById(id) == IF id = "original" THEN Null ELSE MonochromeBlue

\* colorDistance (l.313-323), squared and times 512:
\* (2 + rmean/256) dr^2 + 4 dg^2 + (2 + (255 - rmean)/256) db^2
colorDistance(c1, c2) ==
  LET dr == c1.r - c2.r
      dg == c1.g - c2.g
      db == c1.b - c2.b
  IN  (1024 + c1.r + c2.r) * dr * dr + 2048 * dg * dg + (1534 - c1.r - c2.r) * db * db

\* findNearestColor (l.328-341): the first color of the least distance
RECURSIVE NearestFrom(_, _, _, _)
NearestFrom(target, palette, i, nearest) ==
  IF i > Len(palette) THEN nearest
  ELSE NearestFrom(target, palette, i + 1,
                   IF colorDistance(target, palette[i]) < colorDistance(target, nearest)
                     THEN palette[i] ELSE nearest)

findNearestColor(target, palette) == NearestFrom(target, palette, 2, palette[1])

\* applyPalette (l.354-361)
applyPalette(colors, paletteId) ==
  IF paletteId = "original" \/ getPaletteById(paletteId) = Null THEN colors
  ELSE [i \in 1 .. Len(colors) |-> findNearestColor(colors[i], getPaletteById(paletteId))]

\* adjustColor (l.481-542), saturation and brightness in halves.  With
\* max, min the extreme channels, d = max - min, sum = max + min and
\* S = 510 - sum for l > 0.5, else sum:
\*   l' = L / 1020 with L = min(1020, sum * brightness),
\*   s' = A / 2S   with A = min(2S, d * saturation),
\*   q = Qn / 2040S, p = Pn / 2040S,
\* the hue is H6 / 6d, and a channel times 255 is N / 8Sd, rounded.
adjustColor(color, saturation, brightness) ==
  LET max == Max(color.r, Max(color.g, color.b))
      min == Min(color.r, Min(color.g, color.b))
      d == max - min
      sum == max + min
      S == IF sum > 255 THEN 510 - sum ELSE sum
      L == Min(1020, sum * brightness)
      A == IF d = 0 THEN 0 ELSE Min(2 * S, d * saturation)
      H6 == IF max = color.r
              THEN (color.g - color.b) + (IF color.g < color.b THEN 6 * d ELSE 0)
              ELSE IF max = color.g THEN (color.b - color.r) + 2 * d
              ELSE (color.r - color.g) + 4 * d
      Qn == IF L < 510 THEN L * (2 * S + A) ELSE 2 * S * L + 1020 * A - L * A
      Pn == 4 * L * S - Qn
      Wrapped(T) == IF T < 0 THEN T + 6 * d ELSE IF T > 6 * d THEN T - 6 * d ELSE T
      hue2rgb(T) ==
        LET t == Wrapped(T)
        IN  IF t < d THEN Pn * d + (Qn - Pn) * t
            ELSE IF t < 3 * d THEN Qn * d
            ELSE IF t < 4 * d THEN Pn * d + (Qn - Pn) * (4 * d - t)
            ELSE Pn * d
      Channel(N) == (2 * N + 8 * S * d) \div (16 * S * d)
  IN  IF A = 0
        THEN LET v == (L + 2) \div 4 IN [r |-> v, g |-> v, b |-> v]
        ELSE [r |-> Channel(hue2rgb(H6 + 2 * d)),
              g |-> Channel(hue2rgb(H6)),
              b |-> Channel(hue2rgb(H6 - 2 * d))]

\* An image of two pixels in a row; a cell is the pixel of its centroid and
\* the pixels inside its polygon.
PixelColors ==
  {[r |-> 12, g |-> 40, b |-> 90], [r |-> 200, g |-> 60, b |-> 20],
   [r |-> 240, g |-> 240, b |-> 240]}

Images == [0 .. 1 -> PixelColors]

CellLayouts ==
  {<<[centroid |-> 0, inside |-> {0, 1}]>>,
   <<[centroid |-> 0, inside |-> {0}], [centroid |-> 1, inside |-> {1}]>>,
   <<[centroid |-> 1, inside |-> {}]>>}

\* sampleCenterColor (l.429-436)
sampleCenterColor(imageData, cell) == imageData[cell.centroid]

RECURSIVE Total(_, _, _)
Total(imageData, pixels, channel) ==
  IF pixels = {} THEN 0
  ELSE LET x == CHOOSE x \in pixels : TRUE
       IN  (IF channel = "r" THEN imageData[x].r
            ELSE IF channel = "g" THEN imageData[x].g ELSE imageData[x].b)
           + Total(imageData, pixels \ {x}, channel)

\* sampleAverageColor (l.441-475)
sampleAverageColor(imageData, cell) ==
  IF cell.inside = {} THEN sampleCenterColor(imageData, cell)
  ELSE [r |-> RoundDiv(Total(imageData, cell.inside, "r"), Cardinality(cell.inside)),
        g |-> RoundDiv(Total(imageData, cell.inside, "g"), Cardinality(cell.inside)),
        b |-> RoundDiv(Total(imageData, cell.inside, "b"), Cardinality(cell.inside))]

ColorModes == {"exact", "average", "palette"}

\* the palette sizes of the calls: never below the number of cells
PaletteSizes == {2, 16}

\* quantizeColors (l.547-552) for no more colors than the palette size
quantizeColors(colors, paletteSize) == colors

\* sampleColors (l.623-649)
sampleColors(imageData, cells, mode, paletteSize, saturation, brightness, colorPalette) ==
  LET rawColors == [i \in 1 .. Len(cells) |->
                      IF mode = "average" THEN sampleAverageColor(imageData, cells[i])
                      ELSE sampleCenterColor(imageData, cells[i])]
      quantized == IF mode = "palette" THEN quantizeColors(rawColors, paletteSize)
                   ELSE rawColors
      mapped == applyPalette(quantized, colorPalette)
  IN  [i \in 1 .. Len(mapped) |-> adjustColor(mapped[i], saturation, brightness)]

\* sampleColors is called
CallSampleColors(imageData, cells, mode, paletteSize, saturation, brightness, colorPalette) ==
  /\ sampled = Null
  /\ sampled' = [mode |-> mode, saturation |-> saturation, brightness |-> brightness,
                 colorPalette |-> colorPalette,
                 colors |-> sampleColors(imageData, cells, mode, paletteSize,
                                         saturation, brightness, colorPalette)]
  /\ UNCHANGED <<vars, seed, voronoiResult, svgDoc, newVars>>

PaletteNext ==
  \E imageData \in Images, cells \in CellLayouts, mode \in ColorModes,
     paletteSize \in PaletteSizes, saturation \in 0 .. MaxAdjust,
     brightness \in 0 .. MaxAdjust, colorPalette \in ColorPaletteIds :
    CallSampleColors(imageData, cells, mode, paletteSize, saturation, brightness,
                     colorPalette)

PaletteSpec == Init /\ [][PaletteNext]_<<vars, pureVars>>

\* C20: with the palette monochrome-blue selected every color sampleColors
\* emits is one of the 13 colors of that palette, for every color mode and
\* every saturation and brightness in range.
C20_EmittedColorsInPalette ==
  (sampled # Null /\ sampled.colorPalette = "monochrome-blue") =>
    \A i \in 1 .. Len(sampled.colors) :
      sampled.colors[i] \in {MonochromeBlue[k] : k \in 1 .. Len(MonochromeBlue)}

\* ------------------------------------------------------------ useSettingsHistory
\* hooks/useSettingsHistory.ts.  A settings object is a record of one
\* number; the initial settings hold 0.  settingsEqual (l.24-26) compares the JSON texts, which
\* for an entry that is not there (undefined) equals no settings.
maxHistorySize == 3

SettingsValues == {[settings |-> k] : k \in 0 .. 2}

\* history[i], undefined beyond the array
Entry(h, i) == IF i \in 0 .. Len(h) - 1 THEN h[i + 1] ELSE Undefined

settingsEqual(a, b) == a # Undefined /\ a = b

\* currentSettings, canUndo, canRedo of the last render (l.46-51)
currentSettings == Entry(settingsHistory, historyIndex)

canUndo == historyIndex > 0

canRedo == historyIndex < Len(settingsHistory) - 1

\* mutant: the new settings are appended to the whole history
NewHistoryKeepsFuture(prev, currentIndex, newSettings) ==
  IF settingsEqual(Entry(prev, currentIndex), newSettings) THEN prev
  ELSE LET newHistory == Append(prev, newSettings)
       IN  IF Len(newHistory) > maxHistorySize
             THEN SubSeq(newHistory, Len(newHistory) - maxHistorySize + 1, Len(newHistory))
             ELSE newHistory

\* the updater of setHistory (l.66-84), currentIndex read from
\* historyIndexRef
NewHistory(prev, currentIndex, newSettings) ==
  IF settingsEqual(Entry(prev, currentIndex), newSettings) THEN prev
  ELSE LET newHistory == Append(SubSeq(prev, 1, Min(currentIndex + 1, Len(prev))),
                                newSettings)
       IN  IF Len(newHistory) > maxHistorySize
             THEN SubSeq(newHistory, Len(newHistory) - maxHistorySize + 1, Len(newHistory))
             ELSE newHistory

\* pushSettings (l.95-111): the pending settings are stored and the timer
\* is set anew
PushSettings(newSettings) ==
  /\ pendingSettingsRef' = newSettings
  /\ historyTimer' = TRUE
  /\ UNCHANGED <<settingsHistory, historyIndex, undone, truncated>>
  /\ UNCHANGED <<vars, libVars, workerVars, stageVars>>

\* the timer fires (l.105-110) and calls commitToHistory (l.62-90)
CommitToHistory ==
  /\ historyTimer
  /\ historyTimer' = FALSE
  /\ IF pendingSettingsRef # Null
       THEN /\ settingsHistory' = NewHistory(settingsHistory, historyIndex,
                                             pendingSettingsRef)
            /\ historyIndex' = Min(historyIndex + 1, maxHistorySize - 1)
            /\ pendingSettingsRef' = Null
            /\ undone' = FALSE
            /\ truncated' = IF settingsEqual(currentSettings, pendingSettingsRef) THEN 0
                            ELSE Max(0, Len(settingsHistory) - 1 - historyIndex)
       ELSE UNCHANGED <<settingsHistory, historyIndex, pendingSettingsRef, undone,
                        truncated>>
  /\ UNCHANGED <<vars, libVars, workerVars, stageVars>>

\* undo (l.116-127)
Undo ==
  /\ historyTimer' = FALSE
  /\ pendingSettingsRef' = Null
  /\ historyIndex' = IF canUndo THEN historyIndex - 1 ELSE historyIndex
  /\ undone' = (undone \/ canUndo)
  /\ UNCHANGED <<settingsHistory, truncated>>
  /\ UNCHANGED <<vars, libVars, workerVars, stageVars>>

\* redo (l.132-143)
Redo ==
  /\ historyTimer' = FALSE
  /\ pendingSettingsRef' = Null
  /\ historyIndex' = IF canRedo THEN historyIndex + 1 ELSE historyIndex
  /\ undone' = (undone /\ ~canRedo)
  /\ UNCHANGED <<settingsHistory, truncated>>
  /\ UNCHANGED <<vars, libVars, workerVars, stageVars>>

HistoryNext ==
  \/ \E newSettings \in SettingsValues : PushSettings(newSettings)
  \/ CommitToHistory
  \/ Undo
  \/ Redo

HistorySpec == Init /\ [][HistoryNext]_<<vars, pureVars>>

\* C26: after any sequence of pushSettings, commits, undo and redo,
\* 0 <= historyIndex <= history.length - 1 <= maxHistorySize - 1, so that
\* currentSettings is an entry of the history.
C26_IndexWithinHistory ==
  /\ 0 <= historyIndex
  /\ historyIndex <= Len(settingsHistory) - 1
  /\ Len(settingsHistory) - 1 <= maxHistorySize - 1
  /\ currentSettings # Undefined

\* C27: after undo steps, a commit of settings that differ from the current
\* entry drops the entries after the current index, appends the settings as
\* the last entry and makes it current: redo is unavailable and undo leads
\* back to the entry that was current.
C27_CommitAfterUndoTruncates ==
  [][(undone /\ CommitToHistory /\ pendingSettingsRef # Null
      /\ ~settingsEqual(currentSettings, pendingSettingsRef))
     => /\ settingsHistory'
             = Append(SubSeq(settingsHistory, 1, historyIndex + 1), pendingSettingsRef)
        /\ historyIndex' = Len(settingsHistory') - 1
        /\ ~canRedo'
        /\ historyIndex' - 1 = historyIndex]_<<vars, pureVars>>

\* the last commit came after undo steps and dropped entries
C27_Witness ==
  /\ truncated > 0
  /\ ~undone
  /\ ~canRedo
  /\ historyIndex = Len(settingsHistory) - 1

\* ------------------------------------------------------------ useImageWorker
\* hooks/useWorker.ts l.21-116 and workers/image.worker.ts l.349-379.  The
\* ids of crypto.randomUUID() are 1, 2, ...
MaxRequests == 3    \* detectEdges calls in one behaviour

RequestIds == 1 .. MaxRequests

\* new Worker(...) (l.27-30)
TheWorker == [worker |-> TRUE]

Settle(id, how) ==
  [i \in DOMAIN settlements \cup {id} |->
     IF i = id THEN (IF i \in DOMAIN settlements THEN Append(settlements[i], how)
                     ELSE <<how>>)
     ELSE settlements[i]]

RECURSIVE SettleAll(_, _, _)
SettleAll(ids, how, done) ==
  IF ids = {} THEN done
  ELSE LET id == CHOOSE i \in ids : TRUE
       IN  SettleAll(ids \ {id}, how,
                     [i \in DOMAIN done \cup {id} |->
                        IF i = id THEN (IF i \in DOMAIN done THEN Append(done[i], how)
                                        ELSE <<how>>)
                        ELSE done[i]])

\* the effect of l.25-54: the worker is created and its handlers are set
CreateWorker ==
  /\ ~effectRan
  /\ effectRan' = TRUE
  /\ workerRef' = TheWorker
  /\ UNCHANGED <<pendingRef, toWorker, fromWorker, issued, settlements>>
  /\ UNCHANGED <<vars, libVars, historyVars, stageVars>>

\* detectEdges (l.61-107)
DetectEdgesCall ==
  /\ Cardinality(issued) < MaxRequests
  /\ LET id == Cardinality(issued) + 1
     IN  /\ issued' = issued \cup {id}
         /\ IF workerRef = Null
              THEN /\ settlements' = Settle(id, "rejected: Worker not initialized")
                   /\ UNCHANGED <<pendingRef, toWorker>>
              ELSE /\ pendingRef' = pendingRef \cup {id}
                   /\ toWorker' = Append(toWorker, [type |-> "detectEdges", id |-> id])
                   /\ UNCHANGED settlements
  /\ UNCHANGED <<workerRef, effectRan, fromWorker>>
  /\ UNCHANGED <<vars, libVars, historyVars, stageVars>>

\* self.onmessage of the worker (image.worker.ts l.349-379): the request is
\* answered with a result, or with an error if detectEdges throws
WorkerOnMessage ==
  /\ workerRef # Null
  /\ toWorker # <<>>
  /\ \E type \in {"result", "error"} :
       fromWorker' = Append(fromWorker, [type |-> type, id |-> Head(toWorker).id])
  /\ toWorker' = Tail(toWorker)
  /\ UNCHANGED <<workerRef, effectRan, pendingRef, issued, settlements>>
  /\ UNCHANGED <<vars, libVars, historyVars, stageVars>>

\* workerRef.current.onmessage (l.32-44)
OnMessage ==
  /\ workerRef # Null
  /\ fromWorker # <<>>
  /\ LET m == Head(fromWorker)
     IN  IF m.id \in pendingRef
           THEN /\ settlements' = Settle(m.id, IF m.type = "result" THEN "resolved"
                                               ELSE "rejected: error response")
                /\ pendingRef' = pendingRef \ {m.id}
           ELSE UNCHANGED <<settlements, pendingRef>>
  /\ fromWorker' = Tail(fromWorker)
  /\ UNCHANGED <<workerRef, effectRan, toWorker, issued>>
  /\ UNCHANGED <<vars, libVars, historyVars, stageVars>>

\* workerRef.current.onerror (l.46-53): every pending request is rejected
OnError ==
  /\ workerRef # Null
  /\ settlements' = SettleAll(pendingRef, "rejected: Worker error", settlements)
  /\ pendingRef' = {}
  /\ UNCHANGED <<workerRef, effectRan, toWorker, fromWorker, issued>>
  /\ UNCHANGED <<vars, libVars, historyVars, stageVars>>

\* the cleanup of the effect (l.55-58): the worker is terminated, and with
\* it the messages on their way
Terminate ==
  /\ workerRef # Null
  /\ workerRef' = Null
  /\ toWorker' = <<>>
  /\ fromWorker' = <<>>
  /\ UNCHANGED <<effectRan, pendingRef, issued, settlements>>
  /\ UNCHANGED <<vars, libVars, historyVars, stageVars>>

WorkerNext ==
  \/ CreateWorker
  \/ DetectEdgesCall
  \/ WorkerOnMessage
  \/ OnMessage
  \/ OnError
  \/ Terminate

\* the worker handles every request posted to it and the event loop
\* delivers every response
WorkerSpec ==
  /\ Init
  /\ [][WorkerNext]_<<vars, pureVars>>
  /\ WF_<<vars, pureVars>>(WorkerOnMessage)
  /\ WF_<<vars, pureVars>>(OnMessage)

Settled(id) == id \in DOMAIN settlements /\ Len(settlements[id]) = 1

\* C28: every request issued through detectEdges is eventually settled
\* exactly once, by the response with its id, a worker error or the
\* termination of the worker, and is then no longer in the pending map.
C28_EveryRequestSettledOnce ==
  \A id \in RequestIds :
    (id \in issued) ~> (Settled(id) /\ id \notin pendingRef)

\* ------------------------------------------------------------ stage entry
\* What the stages compute from a settings value they are given.
\* processImage (hooks/useWorker.ts l.487-655) passes the values of its
\* closure to the stages as they are.  The ranges are those of the settings
\* (types/index.ts l.135-164, the sliders of components/ControlPanel.tsx).
Ranges ==
  [cellCount |-> <<50, 2000>>, relaxationIterations |-> <<0, 5>>,
   frameWidth |-> <<2, 15>>, edgeSensitivity |-> <<0, 100>>]

Clamp(v, range) == Max(range[1], Min(range[2], v))

\* the values given, inside and outside the ranges
GivenCellCounts == {250 * k : k \in 0 .. 12}

GivenIterations == -2 .. 8

GivenFrameWidths == {0, 2, 5, 15, 20, 60}

GivenSensitivities == {5 * k : k \in -10 .. 30}

FrameImageSizes == {<<100, 100>>, <<200, 150>>, <<300, 100>>}

\* calculateFrameDepth (unnamed/part_012 l.128-135)
frameDepthOf(width, height, frameWidthPercent) ==
  (Min(width, height) * frameWidthPercent + 50) \div 100

\* the thresholds of detectEdgesCanny (image.worker.ts l.255-256), times 10
CannyThresholds(sensitivity) ==
  [low |-> Max(50, 500 - sensitivity * 4), high |-> Max(200, 1000 - sensitivity * 7)]

\* the threshold of detectEdgesSobel (image.worker.ts l.292), times 10000
SobelThreshold(sensitivity) == (100 - sensitivity) * 30

\* the passes of the loops `for (i = 0; i < n; i++)` of the seed
\* strategies (voronoi/generator.ts l.108) and of relaxPoints (l.72)
Passes(n) == Max(0, n)

\* generateFrame is entered (unnamed/part_012 l.140-157)
EnterGenerateFrame(size, frameWidth) ==
  /\ stageEntry' = [stage |-> "generateFrame", setting |-> "frameWidth",
                    given |-> frameWidth, args |-> size,
                    computed |-> frameDepthOf(size[1], size[2], frameWidth)]
  /\ UNCHANGED <<cannyCall, relaxCall, frameCall>>
  /\ UNCHANGED <<vars, libVars, historyVars, workerVars>>

\* detectEdges of the worker is entered (image.worker.ts l.302-325)
EnterDetectEdges(method, sensitivity) ==
  /\ stageEntry' = [stage |-> "detectEdges", setting |-> "edgeSensitivity",
                    given |-> sensitivity, args |-> method,
                    computed |-> IF method = "canny" THEN CannyThresholds(sensitivity)
                                 ELSE [threshold |-> SobelThreshold(sensitivity)]]
  /\ UNCHANGED <<cannyCall, relaxCall, frameCall>>
  /\ UNCHANGED <<vars, libVars, historyVars, workerVars>>

\* a seed strategy is entered with cellCount (hooks/useWorker.ts l.545-566)
EnterSeedStrategy(cellCount) ==
  /\ stageEntry' = [stage |-> "generatePoints", setting |-> "cellCount",
                    given |-> cellCount, args |-> "uniform",
                    computed |-> Passes(cellCount)]
  /\ UNCHANGED <<cannyCall, relaxCall, frameCall>>
  /\ UNCHANGED <<vars, libVars, historyVars, workerVars>>

\* relaxPoints is entered with relaxationIterations (hooks/useWorker.ts
\* l.577-586; the `if` of l.577 skips the call for iterations <= 0)
EnterRelaxPoints(iterations) ==
  /\ stageEntry' = [stage |-> "relaxPoints", setting |-> "relaxationIterations",
                    given |-> iterations, args |-> "default",
                    computed |-> IF iterations > 0 THEN Passes(iterations) ELSE 0]
  /\ UNCHANGED <<cannyCall, relaxCall, frameCall>>
  /\ UNCHANGED <<vars, libVars, historyVars, workerVars>>

StageNext ==
  \/ \E size \in FrameImageSizes, frameWidth \in GivenFrameWidths :
       EnterGenerateFrame(size, frameWidth)
  \/ \E method \in {"sobel", "canny"}, sensitivity \in GivenSensitivities :
       EnterDetectEdges(method, sensitivity)
  \/ \E cellCount \in GivenCellCounts : EnterSeedStrategy(cellCount)
  \/ \E iterations \in GivenIterations : EnterRelaxPoints(iterations)

StageSpec == Init /\ [][StageNext]_<<vars, pureVars>>

\* what the stage computes from a value of the range
ComputedFrom(e, v) ==
  IF e.stage = "generateFrame" THEN frameDepthOf(e.args[1], e.args[2], v)
  ELSE IF e.stage = "detectEdges"
    THEN (IF e.args = "canny" THEN CannyThresholds(v)
          ELSE [threshold |-> SobelThreshold(v)])
  ELSE Passes(v)

\* C21: a settings value outside its range is clamped into the range at
\* stage entry: the stage computes what it computes from the clamped value.
C21_OutOfRangeValuesAreClamped ==
  stageEntry # Null =>
    stageEntry.computed = ComputedFrom(stageEntry, Clamp(stageEntry.given,
                                                         Ranges[stageEntry.setting]))

\* ------------------------------------------------------------ generateFrame
\* unnamed/part_012 l.140-409 (lib/frame).  The segment borders are
\* fractions of a pixel: all coordinates of a frame are counted in units of
\* 1 / den pixel, den = numTopSegments * numSideSegments.
FrameStyles == {"none", "simple", "segmented"}

FrameSizes == {<<100, 100>>, <<200, 150>>, <<90, 130>>, <<10, 10>>}

FrameWidths == {2, 5, 10, 15}

FrameCellSizes == {10, 20, 30, 45, 150}

\* mutant: the quotient is cut off
FloorRatio(a, b) == a \div b

\* Math.round(a / b) for b > 0
RoundRatio(a, b) == (2 * a + b) \div (2 * b)

\* l.287-293
segmentLength(cellSize) == Max(cellSize, 20)

numTopSegments(width, frameDepth, cellSize) ==
  Max(1, RoundRatio(width - 2 * frameDepth, segmentLength(cellSize)))

numSideSegments(height, frameDepth, cellSize) ==
  Max(1, RoundRatio(height - 2 * frameDepth, segmentLength(cellSize)))

Pt(x, y) == [x |-> x, y |-> y]

\* a rectangle as the polygons of l.307-312 and l.328-333 list it
RectPolygon(x1, y1, x2, y2) == <<Pt(x1, y1), Pt(x2, y1), Pt(x2, y2), Pt(x1, y2)>>

\* the side segments list their corners in the same order (l.366-371)
Element(kind, polygon) == [kind |-> kind, polygon |-> polygon]

\* generateSegmentedFrame (l.275-409)
generateSegmentedFrame(width, height, frameDepth, cellSize) ==
  LET nTop == numTopSegments(width, frameDepth, cellSize)
      nSide == numSideSegments(height, frameDepth, cellSize)
      den == nTop * nSide
      W == width * den
      H == height * den
      d == frameDepth * den
      \* topSegmentWidth and sideSegmentHeight in units
      topSegmentWidth == (width - 2 * frameDepth) * nSide
      sideSegmentHeight == (height - 2 * frameDepth) * nTop
      corners == <<Pt(0, 0), Pt(W - d, 0), Pt(W - d, H - d), Pt(0, H - d)>>
      cornerElements ==
        [k \in 1 .. 4 |->
           Element("corner", RectPolygon(corners[k].x, corners[k].y,
                                         corners[k].x + d, corners[k].y + d))]
      top == [i \in 1 .. nTop |->
                Element("top", RectPolygon(d + (i - 1) * topSegmentWidth, 0,
                                           d + (i - 1) * topSegmentWidth + topSegmentWidth, d))]
      bottom == [i \in 1 .. nTop |->
                   Element("bottom", RectPolygon(d + (i - 1) * topSegmentWidth, H - d,
                                                 d + (i - 1) * topSegmentWidth + topSegmentWidth, H))]
      left == [i \in 1 .. nSide |->
                 Element("left", RectPolygon(0, d + (i - 1) * sideSegmentHeight,
                                             d, d + (i - 1) * sideSegmentHeight + sideSegmentHeight))]
      right == [i \in 1 .. nSide |->
                  Element("right", RectPolygon(W - d, d + (i - 1) * sideSegmentHeight,
                                               W, d + (i - 1) * sideSegmentHeight + sideSegmentHeight))]
  IN  [den |-> den, elements |-> cornerElements \o top \o bottom \o left \o right]

\* generateSimpleFrame (l.196-268): four mitered trapezoids
generateSimpleFrame(width, height, frameDepth) ==
  LET W == width
      H == height
      d == frameDepth
  IN  [den |-> 1,
       elements |->
         <<Element("top", <<Pt(0, 0), Pt(W, 0), Pt(W - d, d), Pt(d, d)>>),
           Element("right", <<Pt(W, 0), Pt(W, H), Pt(W - d, H - d), Pt(W - d, d)>>),
           Element("bottom", <<Pt(W, H), Pt(0, H), Pt(d, H - d), Pt(W - d, H - d)>>),
           Element("left", <<Pt(0, H), Pt(0, 0), Pt(d, d), Pt(d, H - d)>>)>>]

\* generateFrame (l.140-192), without image data and color options
generateFramePolygons(style, width, height, frameWidth, cellSize) ==
  IF style = "none"
    THEN [den |-> 1, elements |-> <<>>,
          innerBounds |-> [left |-> 0, top |-> 0, right |-> width, bottom |-> height]]
    ELSE LET frameDepth == frameDepthOf(width, height, frameWidth)
             result == IF style = "simple"
                         THEN generateSimpleFrame(width, height, frameDepth)
                         ELSE generateSegmentedFrame(width, height, frameDepth, cellSize)
         IN  [den |-> result.den, elements |-> result.elements,
              innerBounds |-> [left |-> frameDepth, top |-> frameDepth,
                               right |-> width - frameDepth,
                               bottom |-> height - frameDepth]]

\* generateFrame is called
CallGenerateFrame(style, size, frameWidth, cellSize) ==
  /\ frameCall' = [style |-> style, width |-> size[1], height |-> size[2],
                   frameWidth |-> frameWidth, cellSize |-> cellSize,
                   result |-> generateFramePolygons(style, size[1], size[2], frameWidth,
                                                    cellSize)]
  /\ UNCHANGED <<stageEntry, cannyCall, relaxCall>>
  /\ UNCHANGED <<vars, libVars, historyVars, workerVars>>

FrameNext ==
  \E style \in FrameStyles, size \in FrameSizes, frameWidth \in FrameWidths,
     cellSize \in FrameCellSizes :
    CallGenerateFrame(style, size, frameWidth, cellSize)

FrameSpec == Init /\ [][FrameNext]_<<vars, pureVars>>

\* the smallest rectangle around a polygon
BoundingBox(polygon) ==
  LET xs == {polygon[k].x : k \in DOMAIN polygon}
      ys == {polygon[k].y : k \in DOMAIN polygon}
  IN  [x1 |-> CHOOSE m \in xs : \A n \in xs : m <= n,
       y1 |-> CHOOSE m \in ys : \A n \in ys : m <= n,
       x2 |-> CHOOSE m \in xs : \A n \in xs : m >= n,
       y2 |-> CHOOSE m \in ys : \A n \in ys : m >= n]

\* the polygon is its bounding box
IsRectangle(polygon) ==
  LET b == BoundingBox(polygon)
  IN  /\ Len(polygon) = 4
      /\ {polygon[k] : k \in DOMAIN polygon} =
           {Pt(b.x1, b.y1), Pt(b.x2, b.y1), Pt(b.x2, b.y2), Pt(b.x1, b.y2)}

\* the boxes of the elements of one kind, in the order of the result
BoxesOf(elements, kind) ==
  LET F[k \in 0 .. Len(elements)] ==
        IF k = 0 THEN <<>>
        ELSE IF elements[k].kind = kind
               THEN Append(F[k - 1], BoundingBox(elements[k].polygon))
               ELSE F[k - 1]
  IN  F[Len(elements)]

\* the boxes tile [from, to] along one axis, in order
Contiguous(boxes, from, to, axis) ==
  /\ Len(boxes) >= 1
  /\ (IF axis = "x" THEN boxes[1].x1 ELSE boxes[1].y1) = from
  /\ (IF axis = "x" THEN boxes[Len(boxes)].x2 ELSE boxes[Len(boxes)].y2) = to
  /\ \A k \in 1 .. Len(boxes) - 1 :
       IF axis = "x" THEN boxes[k + 1].x1 = boxes[k].x2
       ELSE boxes[k + 1].y1 = boxes[k].y2

InteriorsMeet(a, b) ==
  /\ Max(a.x1, b.x1) < Min(a.x2, b.x2)
  /\ Max(a.y1, b.y1) < Min(a.y2, b.y2)

BoxArea(b) == (b.x2 - b.x1) * (b.y2 - b.y1)

AreaOf(boxes) ==
  LET F[k \in 0 .. Len(boxes)] == IF k = 0 THEN 0 ELSE F[k - 1] + BoxArea(boxes[k])
  IN  F[Len(boxes)]

\* the whole number nearest to a / b, halves upwards
Nearest(a, b) == CHOOSE n \in -1 .. a + 1 : 2 * b * n <= 2 * a + b /\ 2 * a + b < 2 * b * (n + 1)

\* C24: for frameStyle = segmented the frame elements are exactly four corner
\* squares of side d plus n_h top, n_h bottom, n_v left and n_v right
\* segments, n_h = max(1, round((W-2d)/s)), n_v = max(1, round((H-2d)/s)),
\* s = max(cellSize, 20); the segments of each side are contiguous from d to
\* W-d (resp. H-d), and the elements cover the annulus between the image
\* rectangle and the inner rectangle [d, d, W-d, H-d] without gaps or overlaps.
C24_SegmentedFrameTilesAnnulus ==
  (frameCall # Null /\ frameCall.style = "segmented") =>
    LET W == frameCall.width
        H == frameCall.height
        d == frameDepthOf(W, H, frameCall.frameWidth)
        s == IF frameCall.cellSize > 20 THEN frameCall.cellSize ELSE 20
        n_h == Max(1, Nearest(W - 2 * d, s))
        n_v == Max(1, Nearest(H - 2 * d, s))
        u == frameCall.result.den
        elements == frameCall.result.elements
        corners == BoxesOf(elements, "corner")
        top == BoxesOf(elements, "top")
        bottom == BoxesOf(elements, "bottom")
        left == BoxesOf(elements, "left")
        right == BoxesOf(elements, "right")
        all == corners \o top \o bottom \o left \o right
    IN  /\ \A k \in DOMAIN elements : IsRectangle(elements[k].polygon)
        /\ Len(elements) = 4 + 2 * n_h + 2 * n_v
        /\ Len(corners) = 4
        /\ {corners[k] : k \in 1 .. 4} =
             {[x1 |-> x, y1 |-> y, x2 |-> x + d * u, y2 |-> y + d * u] :
                x \in {0, (W - d) * u}, y \in {0, (H - d) * u}}
        /\ Len(top) = n_h /\ Len(bottom) = n_h
        /\ Len(left) = n_v /\ Len(right) = n_v
        /\ Contiguous(top, d * u, (W - d) * u, "x")
        /\ Contiguous(bottom, d * u, (W - d) * u, "x")
        /\ Contiguous(left, d * u, (H - d) * u, "y")
        /\ Contiguous(right, d * u, (H - d) * u, "y")
        /\ \A k \in 1 .. n_h :
             /\ top[k].y1 = 0 /\ top[k].y2 = d * u
             /\ bottom[k].y1 = (H - d) * u /\ bottom[k].y2 = H * u
             /\ top[k].x2 - top[k].x1 = top[1].x2 - top[1].x1
             /\ bottom[k].x1 = top[k].x1 /\ bottom[k].x2 = top[k].x2
        /\ \A k \in 1 .. n_v :
             /\ left[k].x1 = 0 /\ left[k].x2 = d * u
             /\ right[k].x1 = (W - d) * u /\ right[k].x2 = W * u
             /\ left[k].y2 - left[k].y1 = left[1].y2 - left[1].y1
             /\ right[k].y1 = left[k].y1 /\ right[k].y2 = left[k].y2
        /\ \A j, k \in DOMAIN all : j # k => ~InteriorsMeet(all[j], all[k])
        /\ AreaOf(all) = (W * H - (W - 2 * d) * (H - 2 * d)) * u * u
        /\ frameCall.result.innerBounds =
             [left |-> d, top |-> d, right |-> W - d, bottom |-> H - d]

\* a segmented frame with several segments per side whose borders fall
\* between pixels
C24_Witness ==
  /\ frameCall # Null
  /\ frameCall.style = "segmented"
  /\ frameCall.cellSize < 20
  /\ LET top == BoxesOf(frameCall.result.elements, "top")
         left == BoxesOf(frameCall.result.elements, "left")
     IN  /\ Len(top) >= 3
         /\ Len(left) >= 3
         /\ Len(top) # Len(left)
         /\ (top[1].x2 - top[1].x1) % frameCall.result.den # 0

\* ------------------------------------------------------- detectEdgesCanny
\* workers/image.worker.ts l.160-263.  An edge map is a function of the
\* pixel index y * width + x; magnitudes and thresholds are times 10.
CannyWidth == 5

CannyHeight == 4

CannySensitivities == {0, 100}

STRONG == 255

WEAK == 50

Pixels(width, height) == 0 .. width * height - 1

\* the pixels the loops of l.168-169 and l.223-224 visit
Interior(width, height) ==
  {i \in Pixels(width, height) :
     /\ (i % width) >= 1 /\ (i % width) < width - 1
     /\ (i \div width) >= 1 /\ (i \div width) < height - 1}

\* nonMaxSuppression (l.160-199) writes the interior pixels only: a pixel
\* keeps its magnitude or is left out, every border pixel stays 0
SuppressedMaps(width, height, magnitudes) ==
  {[i \in Pixels(width, height) |-> IF i \in Interior(width, height) THEN m[i] ELSE 0] :
     m \in [Interior(width, height) -> magnitudes]}

\* the magnitudes around the two thresholds
MagnitudesAround(thresholds) ==
  {thresholds.low - 1, thresholds.low, thresholds.high - 1, thresholds.high}

\* the 3 x 3 block around an interior pixel (l.227-229)
Block(idx, width) ==
  {((idx \div width) + dy) * width + ((idx % width) + dx) : dy \in -1 .. 1, dx \in -1 .. 1}

\* l.212-218
Classified(edges, lowThreshold, highThreshold) ==
  [i \in DOMAIN edges |->
     IF edges[i] >= highThreshold THEN STRONG
     ELSE IF edges[i] >= lowThreshold THEN WEAK
     ELSE 0]

\* one pass of the for loops of l.223-240, in place, in index order
RECURSIVE SweepFrom(_, _, _, _)
SweepFrom(result, idx, width, height) ==
  IF idx >= width * height THEN result
  ELSE IF /\ idx \in Interior(width, height)
          /\ result[idx] = WEAK
          /\ \E j \in Block(idx, width) : result[j] = STRONG
         THEN SweepFrom([result EXCEPT ![idx] = STRONG], idx + 1, width, height)
         ELSE SweepFrom(result, idx + 1, width, height)

Sweep(result, width, height) == SweepFrom(result, 0, width, height)

\* mutant: the sweep is made once
SweepOnce(result, width, height, passes) ==
  [marks |-> Sweep(result, width, height), passes |-> 1]

\* the while loop of l.220-241: sweeps until one changes nothing
RECURSIVE SweepUntilUnchanged(_, _, _, _)
SweepUntilUnchanged(result, width, height, passes) ==
  LET swept == Sweep(result, width, height)
  IN  IF swept = result
        THEN [marks |-> result, passes |-> passes + 1]
        ELSE SweepUntilUnchanged(swept, width, height, passes + 1)

\* hysteresisThreshold (l.201-247)
hysteresisThreshold(edges, width, height, lowThreshold, highThreshold) ==
  LET loop == SweepUntilUnchanged(Classified(edges, lowThreshold, highThreshold),
                                  width, height, 0)
  IN  [marks |-> loop.marks, passes |-> loop.passes,
       result |-> [i \in DOMAIN edges |-> IF loop.marks[i] = STRONG THEN 1 ELSE 0]]

\* detectEdgesCanny (l.249-263) from the suppressed map on
CallDetectEdgesCanny(sensitivity, suppressed) ==
  LET thresholds == CannyThresholds(sensitivity)
      out == hysteresisThreshold(suppressed, CannyWidth, CannyHeight,
                                 thresholds.low, thresholds.high)
  IN  /\ cannyCall = Null
      /\ cannyCall' = [sensitivity |-> sensitivity, suppressed |-> suppressed,
                       marks |-> out.marks, passes |-> out.passes, edges |-> out.result]
      /\ UNCHANGED <<stageEntry, relaxCall, frameCall>>
      /\ UNCHANGED <<vars, libVars, historyVars, workerVars>>

CannyNext ==
  \E sensitivity \in CannySensitivities :
    \E suppressed \in SuppressedMaps(CannyWidth, CannyHeight,
                                     MagnitudesAround(CannyThresholds(sensitivity))) :
      CallDetectEdgesCanny(sensitivity, suppressed)

CannySpec == Init /\ [][CannyNext]_<<vars, pureVars>>

\* the pixels a chain of 8-neighbours at or above low joins to a pixel at
\* or above high
RECURSIVE JoinedToStrong(_, _, _, _)
JoinedToStrong(reached, edges, width, lowThreshold) ==
  LET more == {i \in DOMAIN edges :
                 /\ edges[i] >= lowThreshold
                 /\ \E j \in reached :
                      /\ (j \div width) - (i \div width) \in -1 .. 1
                      /\ (j % width) - (i % width) \in -1 .. 1}
  IN  IF more \subseteq reached THEN reached
      ELSE JoinedToStrong(reached \cup more, edges, width, lowThreshold)

\* C22: Canny hysteresis ends at a fixed point with a binary output: a pixel
\* is 1 exactly when it is at or above the high threshold, or is at or above
\* the low threshold and joined to such a strong pixel by a chain of
\* 8-neighbouring pixels at or above the low threshold; every other pixel is 0.
C22_HysteresisIsReachabilityFromStrong ==
  cannyCall # Null =>
    LET thresholds == CannyThresholds(cannyCall.sensitivity)
        edges == cannyCall.suppressed
        strong == {i \in DOMAIN edges : edges[i] >= thresholds.high}
        joined == JoinedToStrong(strong, edges, CannyWidth, thresholds.low)
    IN  /\ Sweep(cannyCall.marks, CannyWidth, CannyHeight) = cannyCall.marks
        /\ \A i \in DOMAIN edges :
             /\ cannyCall.edges[i] \in {0, 1}
             /\ cannyCall.edges[i] = 1 <=> i \in joined

\* a pixel just below high is raised in a later sweep than the first, and
\* an interior pixel just below low stays 0
C22_Witness ==
  /\ cannyCall # Null
  /\ cannyCall.passes >= 3
  /\ LET thresholds == CannyThresholds(cannyCall.sensitivity)
     IN  /\ \E i \in DOMAIN cannyCall.edges :
               /\ cannyCall.suppressed[i] = thresholds.high - 1
               /\ cannyCall.edges[i] = 1
         /\ \E i \in Interior(CannyWidth, CannyHeight) :
               /\ cannyCall.suppressed[i] = thresholds.low - 1
               /\ cannyCall.edges[i] = 0

\* ------------------------------------------------------------ relaxPoints
\* voronoi/generator.ts l.7-93.  Coordinates are in 1 / 1000 pixel.
RelaxSeeds == {Pt(1000, 1000), Pt(3000, 1000)}

RelaxInputs == [1 .. 3 -> RelaxSeeds]

RelaxIterations == 0 .. 2

\* what voronoi.cellPolygon(i) can answer for a point the triangulation
\* kept: a closed ring (the first corner once more at the end), among them
\* one that has two corners only
Rings ==
  {[ring |-> <<Pt(0, 0), Pt(2000, 0), Pt(2000, 2000), Pt(0, 2000), Pt(0, 0)>>],
   [ring |-> <<Pt(1000, 0), Pt(4000, 0), Pt(4000, 2000), Pt(1000, 2000), Pt(1000, 0)>>],
   [ring |-> <<Pt(0, 0), Pt(2000, 0), Pt(0, 0)>>]}

\* the answers of d3-delaunay for all points (l.30-31, l.37): null for the
\* points a triangulation left out
CellPolygonAnswers(points) ==
  {answers \in [0 .. Len(points) - 1 -> Rings \cup {Null}] :
     \E kept \in Triangulations(points) :
       \A i \in 0 .. Len(points) - 1 : answers[i] = Null <=> i \notin kept}

\* calculateCentroid (l.7-15)
calculateCentroid(polygon) ==
  LET cx[k \in 0 .. Len(polygon)] == IF k = 0 THEN 0 ELSE cx[k - 1] + polygon[k].x
      cy[k \in 0 .. Len(polygon)] == IF k = 0 THEN 0 ELSE cy[k - 1] + polygon[k].y
  IN  Pt(cx[Len(polygon)] \div Len(polygon), cy[Len(polygon)] \div Len(polygon))

\* the loop of generateVoronoi (l.36-55) from point i on
RECURSIVE VoronoiCells(_, _, _)
VoronoiCells(answers, i, cells) ==
  IF i \notin DOMAIN answers THEN cells
  ELSE IF answers[i] # Null /\ Len(answers[i].ring) > 2
         THEN LET polygon == SubSeq(answers[i].ring, 1, Len(answers[i].ring) - 1)
              IN  IF Len(polygon) < 3
                    THEN VoronoiCells(answers, i + 1, cells)
                    ELSE VoronoiCells(answers, i + 1,
                           Append(cells, [index |-> i, polygon |-> polygon,
                                          centroid |-> calculateCentroid(polygon)]))
         ELSE VoronoiCells(answers, i + 1, cells)

\* mutant: the cell at place i of the array
CellAt(cells, i) ==
  IF i + 1 \in DOMAIN cells THEN cells[i + 1] ELSE Undefined

\* result.cells.find((c) => c.index === i) (l.77)
FindCell(cells, i) ==
  IF \E k \in DOMAIN cells : cells[k].index = i
    THEN cells[CHOOSE k \in DOMAIN cells :
                 cells[k].index = i /\ \A j \in 1 .. k - 1 : cells[j].index # i]
    ELSE Undefined

\* 0.3 * a + 0.7 * b
Towards(a, b) == (3 * a + 7 * b) \div 10

\* the inner loop (l.74-87)
NewPoints(currentPoints, cells) ==
  [k \in 1 .. Len(currentPoints) |->
     LET cell == FindCell(cells, k - 1)
     IN  IF cell # Undefined
           THEN Pt(Towards(currentPoints[k].x, cell.centroid.x),
                   Towards(currentPoints[k].y, cell.centroid.y))
           ELSE currentPoints[k]]

\* relaxPoints(points, width, height, iterations) is called (l.64-70)
CallRelaxPoints(points, iterations) ==
  /\ relaxCall = Null
  /\ relaxCall' = [pc |-> "loop", points |-> points, iterations |-> iterations,
                   iter |-> 0, currentPoints |-> points, passes |-> <<>>]
  /\ UNCHANGED <<stageEntry, cannyCall, frameCall>>
  /\ UNCHANGED <<vars, libVars, historyVars, workerVars>>

\* one pass of the loop (l.72-89); passes keeps, as history, what the
\* library answered for each point
RelaxPass ==
  /\ relaxCall # Null
  /\ relaxCall.pc = "loop"
  /\ relaxCall.iter < relaxCall.iterations
  /\ \E answers \in CellPolygonAnswers(relaxCall.currentPoints) :
       LET newPoints == NewPoints(relaxCall.currentPoints, VoronoiCells(answers, 0, <<>>))
       IN  relaxCall' = [relaxCall EXCEPT
                           !.iter = @ + 1,
                           !.currentPoints = newPoints,
                           !.passes = Append(@, [before |-> relaxCall.currentPoints,
                                                 answers |-> answers,
                                                 after |-> newPoints])]
  /\ UNCHANGED <<stageEntry, cannyCall, frameCall>>
  /\ UNCHANGED <<vars, libVars, historyVars, workerVars>>

\* return currentPoints (l.92)
RelaxReturn ==
  /\ relaxCall # Null
  /\ relaxCall.pc = "loop"
  /\ relaxCall.iter >= relaxCall.iterations
  /\ relaxCall' = [relaxCall EXCEPT !.pc = "done"]
  /\ UNCHANGED <<stageEntry, cannyCall, frameCall>>
  /\ UNCHANGED <<vars, libVars, historyVars, workerVars>>

RelaxNext ==
  \/ \E points \in RelaxInputs, iterations \in RelaxIterations :
       CallRelaxPoints(points, iterations)
  \/ RelaxPass
  \/ RelaxReturn

RelaxSpec == Init /\ [][RelaxNext]_<<vars, pureVars>>

\* the cell of point i was dropped: no polygon, or fewer than 3 corners
Dropped(answers, i) == answers[i] = Null \/ Len(answers[i].ring) < 4

\* the mean of the corners of the cell the library gave for point i
CentroidOf(answers, i) ==
  LET corners == SubSeq(answers[i].ring, 1, Len(answers[i].ring) - 1)
  IN  calculateCentroid(corners)

\* C23: after every pass relaxPoints holds as many points as were given, in
\* the same seed order: a point whose cell was dropped is unchanged, every
\* other point has moved to 0.3 p + 0.7 centroid of the cell generated from
\* that same point.
C23_RelaxMovesEachPointToItsOwnCell ==
  relaxCall # Null =>
    /\ Len(relaxCall.currentPoints) = Len(relaxCall.points)
    /\ Len(relaxCall.passes) = relaxCall.iter
    /\ \A n \in DOMAIN relaxCall.passes :
         LET pass == relaxCall.passes[n]
         IN  /\ pass.before = (IF n = 1 THEN relaxCall.points
                               ELSE relaxCall.passes[n - 1].after)
             /\ DOMAIN pass.after = DOMAIN relaxCall.points
             /\ \A k \in DOMAIN pass.before :
                  IF Dropped(pass.answers, k - 1)
                    THEN pass.after[k] = pass.before[k]
                    ELSE LET c == CentroidOf(pass.answers, k - 1)
                         IN  /\ 10 * pass.after[k].x = 3 * pass.before[k].x + 7 * c.x
                             /\ 10 * pass.after[k].y = 3 * pass.before[k].y + 7 * c.y
    /\ relaxCall.currentPoints =
         (IF relaxCall.passes = <<>> THEN relaxCall.points
          ELSE relaxCall.passes[Len(relaxCall.passes)].after)

\* two passes done and returned; in one pass a cell before the last point
\* was dropped while the last point moved
C23_Witness ==
  /\ relaxCall # Null
  /\ relaxCall.pc = "done"
  /\ Len(relaxCall.passes) = 2
  /\ \E n \in DOMAIN relaxCall.passes :
       LET pass == relaxCall.passes[n]
       IN  /\ Dropped(pass.answers, 0)
           /\ ~Dropped(pass.answers, 2)
           /\ pass.after[3] # pass.before[3]
           /\ pass.after[1] = pass.before[1]

====
